---- MODULE Spec2Model ----
(***************************************************************************)
(* A model of the window core of gpui3 (crates/gpui3/src/window.rs): the   *)
(* focus-handle registry, the window's focus, the double-buffered frames   *)
(* and the draw pass, keystroke matching with pending input, and action    *)
(* dispatch along the dispatch path.                                       *)
(*                                                                         *)
(* Option<T> is modelled as a sequence of length at most one:              *)
(* None is << >> and Some(x) is <<x>>.                                     *)
(***************************************************************************)
EXTENDS Naturals, Integers, Sequences, FiniteSets, TLC

\* ------------------------------------------------------------------ bounds
\* MAX_NAVIGATION_HISTORY_LEN, which is 1024 in pane.rs, scaled down.
MAX_NAVIGATION_HISTORY_LEN == 2
\* Navigation entries pushed in one run (the values of next_timestamp).
MaxNavPushes == 3
\* Tabs a pane holds at once.
MaxTabs == 3
\* The key events a recorded run dispatches.
MaxInputs == 6
MaxNesting == 2
\* Focus ids the registry hands out (slots of the SlotMap).
MaxFocusIds == 2
\* Strong FocusHandle objects alive at once for one id.
MaxHandles == 2
\* Element calls (insert_hitbox, paint_quad, transact, ...) made in one run.
MaxOps == 4
\* Nested transact calls open at once.
MaxTxDepth == 1
\* Hitboxes in one frame.
MaxHitboxes == 2
\* The largest coordinate of the viewport: its points are 0..MaxPoint.
MaxPoint == 2
\* Action listeners one element registers.
MaxNodeListeners == 1
\* Global action listeners the application registers for one action type.
MaxGlobalListeners == 2

VARIABLES
    \* --- focus registry: Arc<RwLock<SlotMap<FocusId, AtomicUsize>>>
    handles,         \* the SlotMap: handles[id] is the AtomicUsize stored for id
    arc_strong,      \* strong count of the Arc holding the SlotMap (0: deallocated)
    window_alive,    \* the Window (which owns one Arc) has not been dropped
    strong,          \* per id, the number of FocusHandle objects alive
    weak,            \* the ids some WeakFocusHandle names
    last_call,       \* the last operation and what it returned
    upgrading,       \* the for_id on another thread that has loaded a count
    \* --- window
    focus,           \* Window::focus: Option<FocusId>
    focus_enabled,   \* Window::focus_enabled
    dirty,           \* Window::dirty
    refreshing,      \* Window::refreshing
    draw_phase,      \* Window::draw_phase
    pending_input,   \* Window::pending_input: Option<PendingInput>
    active,          \* Window::active
    \* --- frames and the draw pass
    rendered_frame,  \* Window::rendered_frame
    next_frame,      \* Window::next_frame
    tx_stack,        \* the `index` local of every transact call in progress
    ops,             \* element calls made so far
    draw_count,      \* draw passes that reached the swap, modulo 2
    next_hitbox_id,  \* Window::next_hitbox_id
    element_state_log, \* the element state keys the pass in progress called for or reused
    mouse_position,  \* Window::mouse_position
    mouse_hit_test,  \* Window::mouse_hit_test
    mouse_dispatch,  \* the dispatch_mouse_event in progress: its `mouse_listeners` local
    \* --- event dispatch
    global_action_listeners,  \* AppContext::global_action_listeners
    focus_listeners, \* Window::focus_listeners
    focus_lost_listeners, \* Window::focus_lost_listeners
    focus_trace,     \* what the last draw told the focus listeners, in order
    propagate_event, \* AppContext::propagate_event
    trace,           \* what the last dispatch invoked, in order
    pending_modifier, \* Window::pending_modifier
    modifiers,       \* Window::modifiers
    keystroke_events, \* what the last key dispatch handed to the keystroke observers
    input_log,       \* the key events dispatched so far, where they are recorded
    \* --- workspace
    pane,            \* Pane: its items, active item and activation history
    nav_history      \* NavHistoryState of the pane's NavHistory

registryVars == <<handles, arc_strong, window_alive, strong, weak>>
windowVars == <<focus, focus_enabled, dirty, refreshing, draw_phase, pending_input>>
frameVars == <<rendered_frame, next_frame>>
drawVars == <<frameVars, active, tx_stack, ops, draw_count, next_hitbox_id, mouse_hit_test,
              element_state_log>>
dispatchVars == <<global_action_listeners, focus_listeners, focus_lost_listeners,
                  propagate_event, trace, pending_modifier, modifiers, keystroke_events,
                  input_log>>
workspaceVars == <<pane, nav_history>>
\* What the window never touches, and the mouse dispatch in progress, which
\* only the steps of such a dispatch touch.
beyondWindowVars == <<upgrading, workspaceVars, mouse_dispatch>>
\* What the registry and focus operations never touch.
beyondFocusVars == <<drawVars, dispatchVars, mouse_position, focus_trace, beyondWindowVars>>
\* What the draw pass and the element calls never touch.
beyondDrawVars == <<dispatchVars, mouse_position, focus_trace, beyondWindowVars>>
\* What the workspace never touches.
beyondWorkspaceVars == <<registryVars, windowVars, drawVars, dispatchVars, mouse_position,
                         focus_trace, upgrading, mouse_dispatch>>
vars == <<registryVars, last_call, windowVars, drawVars, dispatchVars, mouse_position,
          focus_trace, beyondWindowVars>>

None == << >>
Some(x) == <<x>>
IsSome(o) == Len(o) = 1
Unwrap(o) == o[1]

FocusIds == 1..MaxFocusIds

Call(op, id, result) == [op |-> op, id |-> id, result |-> result]

\* ------------------------------------------------------ focus registry
\* lock.get(id): the slot of id, if the SlotMap (still) has one.
SlotPresent(hs, id) == id \in DOMAIN hs

\* A for_id that hands out a handle without looking at the count.
for_id_unchecked(hs, id) ==
    IF ~SlotPresent(hs, id)
    THEN [ok |-> FALSE, handles |-> hs]
    ELSE [ok |-> TRUE, handles |-> [hs EXCEPT ![id] = @ + 1]]

\* FocusHandle::for_id: None if the id has no slot or its count is 0,
\* otherwise the count is incremented and a handle returned.
for_id(hs, id) ==
    IF ~SlotPresent(hs, id)
    THEN [ok |-> FALSE, handles |-> hs]
    ELSE IF hs[id] = 0
         THEN [ok |-> FALSE, handles |-> hs]
         ELSE [ok |-> TRUE, handles |-> [hs EXCEPT ![id] = @ + 1]]

\* A drop that forgets to decrement.
drop_count_kept(hs, id) == hs

\* Drop for FocusHandle: fetch_sub(1) on the id's counter.
drop_count(hs, id) == [hs EXCEPT ![id] = @ - 1]

\* Dropping one Arc: the SlotMap is deallocated with the last one.
ArcDropped(hs, n) == IF n = 1 THEN << >> ELSE hs

\* FocusHandle::new, through Window::focus_handle: a fresh slot with count 1.
FocusHandleNew ==
    /\ window_alive
    /\ Len(handles) < MaxFocusIds
    /\ handles' = Append(handles, 1)
    /\ arc_strong' = arc_strong + 1
    /\ strong' = [strong EXCEPT ![Len(handles) + 1] = 1]
    /\ last_call' = Call("new", Len(handles) + 1, "Some")
    /\ UNCHANGED <<window_alive, weak, windowVars, beyondFocusVars>>

\* Clone for FocusHandle: for_id(self.id).unwrap() on a live handle.
FocusHandleClone(id) ==
    /\ strong[id] > 0
    /\ strong[id] < MaxHandles
    /\ LET r == for_id(handles, id) IN
        /\ r.ok
        /\ handles' = r.handles
        /\ arc_strong' = arc_strong + 1
        /\ strong' = [strong EXCEPT ![id] = @ + 1]
        /\ last_call' = Call("clone", id, "Some")
    /\ UNCHANGED <<window_alive, weak, windowVars, beyondFocusVars>>

\* Drop for FocusHandle, then the drop of its `handles` field (an Arc).
FocusHandleDrop(id) ==
    /\ strong[id] > 0
    /\ handles' = ArcDropped(drop_count(handles, id), arc_strong)
    /\ arc_strong' = arc_strong - 1
    /\ strong' = [strong EXCEPT ![id] = @ - 1]
    /\ last_call' = Call("drop", id, "None")
    /\ UNCHANGED <<window_alive, weak, windowVars, beyondFocusVars>>

\* FocusHandle::downgrade: a weak handle for the same id, no count changes.
FocusHandleDowngrade(id) ==
    /\ strong[id] > 0
    /\ weak' = weak \cup {id}
    /\ last_call' = Call("downgrade", id, "Some")
    /\ UNCHANGED <<handles, arc_strong, window_alive, strong, windowVars, beyondFocusVars>>

\* WeakFocusHandle::upgrade: Weak::upgrade of the registry, then for_id.
WeakFocusHandleUpgrade(id) ==
    /\ id \in weak
    /\ strong[id] < MaxHandles
    /\ IF arc_strong = 0
       THEN /\ last_call' = Call("upgrade", id, "None")
            /\ UNCHANGED <<handles, arc_strong, strong>>
       ELSE LET r == for_id(handles, id) IN
            /\ handles' = r.handles
            /\ arc_strong' = IF r.ok THEN arc_strong + 1 ELSE arc_strong
            /\ strong' = IF r.ok THEN [strong EXCEPT ![id] = @ + 1] ELSE strong
            /\ last_call' = Call("upgrade", id, IF r.ok THEN "Some" ELSE "None")
    /\ UNCHANGED <<window_alive, weak, windowVars, beyondFocusVars>>

\* The Window is dropped, and with it the Arc it owns.
WindowDrop ==
    /\ window_alive
    /\ window_alive' = FALSE
    /\ handles' = ArcDropped(handles, arc_strong)
    /\ arc_strong' = arc_strong - 1
    /\ last_call' = Call("drop_window", 0, "None")
    /\ UNCHANGED <<strong, weak, windowVars, beyondFocusVars>>

\* WeakFocusHandle::upgrade on another thread, up to the load in for_id:
\* Weak::upgrade of the registry, the read lock, and ref_count.load. A count
\* of 0 (or a registry that is gone) returns None; otherwise the thread
\* holds the upgraded Arc and has yet to do its fetch_add. The read lock is
\* shared, so the drops and clones of other threads are not held up.
UpgradeLoad(id) ==
    /\ id \in weak
    /\ upgrading = None
    /\ strong[id] < MaxHandles
    /\ IF arc_strong = 0 \/ ~SlotPresent(handles, id) \/ handles[id] = 0
       THEN /\ last_call' = Call("upgrade", id, "None")
            /\ UNCHANGED <<arc_strong, upgrading>>
       ELSE /\ arc_strong' = arc_strong + 1
            /\ upgrading' = Some(id)
            /\ last_call' = Call("load", id, handles[id])
    /\ UNCHANGED <<handles, window_alive, strong, weak, windowVars, drawVars,
                   dispatchVars, mouse_position, focus_trace, workspaceVars,
                   mouse_dispatch>>

\* The rest of that for_id: ref_count.fetch_add(1) and the handle returned
\* (its Arc is a clone of the upgraded one, which is then dropped).
UpgradeFetchAdd ==
    /\ IsSome(upgrading)
    /\ handles' = [handles EXCEPT ![Unwrap(upgrading)] = @ + 1]
    /\ strong' = [strong EXCEPT ![Unwrap(upgrading)] = @ + 1]
    /\ last_call' = Call("upgrade", Unwrap(upgrading), "Some")
    /\ upgrading' = None
    /\ UNCHANGED <<arc_strong, window_alive, weak, windowVars, drawVars,
                   dispatchVars, mouse_position, focus_trace, workspaceVars,
                   mouse_dispatch>>

\* ------------------------------------------------------------- window focus
\* Window::refresh: only outside a draw pass.
Refreshed(phase, flag) == IF phase = "None" THEN TRUE ELSE flag

\* Window::focused: a new strong handle for the current focus, if for_id gives one.
WindowFocused ==
    /\ window_alive
    /\ IsSome(focus) => strong[Unwrap(focus)] < MaxHandles
    /\ IF IsSome(focus)
       THEN LET id == Unwrap(focus)
                r == for_id(handles, id) IN
            /\ handles' = r.handles
            /\ arc_strong' = IF r.ok THEN arc_strong + 1 ELSE arc_strong
            /\ strong' = IF r.ok THEN [strong EXCEPT ![id] = @ + 1] ELSE strong
            /\ last_call' = Call("focused", id, IF r.ok THEN "Some" ELSE "None")
       ELSE /\ last_call' = Call("focused", 0, "None")
            /\ UNCHANGED <<handles, arc_strong, strong>>
    /\ UNCHANGED <<window_alive, weak, windowVars, beyondFocusVars>>

\* A focus(handle) that does not ask whether focus is enabled.
WindowFocusWhenDisabled(id) ==
    /\ window_alive
    /\ strong[id] > 0
    /\ IF focus = Some(id)
       THEN UNCHANGED windowVars
       ELSE /\ focus' = Some(id)
            /\ pending_input' = None
            /\ refreshing' = Refreshed(draw_phase, refreshing)
            /\ dirty' = Refreshed(draw_phase, dirty)
            /\ UNCHANGED <<focus_enabled, draw_phase>>
    /\ last_call' = Call("focus", id, "None")
    /\ UNCHANGED <<registryVars, beyondFocusVars>>

\* Window::focus(handle): the caller holds a live handle for id.
WindowFocus(id) ==
    /\ window_alive
    /\ strong[id] > 0
    /\ IF ~focus_enabled \/ focus = Some(id)
       THEN UNCHANGED windowVars
       ELSE /\ focus' = Some(id)
            /\ pending_input' = None
            /\ refreshing' = Refreshed(draw_phase, refreshing)
            /\ dirty' = Refreshed(draw_phase, dirty)
            /\ UNCHANGED <<focus_enabled, draw_phase>>
    /\ last_call' = Call("focus", id, "None")
    /\ UNCHANGED <<registryVars, beyondFocusVars>>

\* Window::blur.
WindowBlur ==
    /\ window_alive
    /\ IF ~focus_enabled
       THEN UNCHANGED windowVars
       ELSE /\ focus' = None
            /\ refreshing' = Refreshed(draw_phase, refreshing)
            /\ dirty' = Refreshed(draw_phase, dirty)
            /\ UNCHANGED <<focus_enabled, draw_phase, pending_input>>
    /\ last_call' = Call("blur", 0, "None")
    /\ UNCHANGED <<registryVars, beyondFocusVars>>

\* Window::disable_focus: blur, then focus_enabled = false.
WindowDisableFocus ==
    /\ window_alive
    /\ IF ~focus_enabled
       THEN UNCHANGED <<focus, refreshing, dirty>>
       ELSE /\ focus' = None
            /\ refreshing' = Refreshed(draw_phase, refreshing)
            /\ dirty' = Refreshed(draw_phase, dirty)
    /\ focus_enabled' = FALSE
    /\ last_call' = Call("disable_focus", 0, "None")
    /\ UNCHANGED <<draw_phase, pending_input>>
    /\ UNCHANGED <<registryVars, beyondFocusVars>>

\* The action types of the application.
ActionTypes == {"Save", "Undo"}

\* ------------------------------------------------------------------ frames
\* The (GlobalElementId, TypeId) keys elements keep state under.
ElementStateKeys == {"list", "scroll"}
\* The priorities elements defer draws with.
Priorities == {0, 1}

\* Frame::new. `buf` names the allocation the frame's collections live in: it
\* moves with the frame's value when mem::swap exchanges the two frames.
FrameNew(buf) ==
    [buf |-> buf,
     focus |-> None,
     window_active |-> FALSE,
     element_states |-> {},
     accessed_element_states |-> << >>,
     mouse_listeners |-> << >>,
     dispatch_tree |-> << >>,
     scene |-> << >>,
     hitboxes |-> << >>,
     deferred_draws |-> << >>,
     input_handlers |-> << >>,
     tooltip_requests |-> << >>,
     cursor_styles |-> << >>]

\* Frame::clear: every collection emptied and focus reset; window_active stays.
FrameClear(f) ==
    [f EXCEPT !.element_states = {},
              !.accessed_element_states = << >>,
              !.mouse_listeners = << >>,
              !.dispatch_tree = << >>,
              !.scene = << >>,
              !.input_handlers = << >>,
              !.tooltip_requests = << >>,
              !.cursor_styles = << >>,
              !.hitboxes = << >>,
              !.deferred_draws = << >>,
              !.focus = None]

\* The points of the viewport, and the regions hitboxes and content masks
\* cover: the intervals of points.
Points == 0..MaxPoint
Viewport == Points
Regions == {lo..hi : lo, hi \in Points} \ {{}}

\* A mouse listener closure: the event type its handler takes and what the
\* handler does to propagate_event in each phase.
MouseListener(on, capture, bubble) == [on |-> on, capture |-> capture, bubble |-> bubble]

Hitbox(id, bounds, content_mask, opaque) ==
    [id |-> id, bounds |-> bounds, content_mask |-> content_mask, opaque |-> opaque]

\* A hit test that goes on past opaque hitboxes.
RECURSIVE HitTestThroughOpaque(_, _, _)
HitTestThroughOpaque(hitboxes, n, position) ==
    IF n = 0
    THEN << >>
    ELSE IF position \in (hitboxes[n].bounds \cap hitboxes[n].content_mask)
         THEN <<hitboxes[n].id>> \o HitTestThroughOpaque(hitboxes, n - 1, position)
         ELSE HitTestThroughOpaque(hitboxes, n - 1, position)

\* A hit test that looks at the bounds alone, not at the content mask.
RECURSIVE HitTestUnmasked(_, _, _)
HitTestUnmasked(hitboxes, n, position) ==
    IF n = 0
    THEN << >>
    ELSE IF position \in hitboxes[n].bounds
         THEN IF hitboxes[n].opaque
              THEN <<hitboxes[n].id>>
              ELSE <<hitboxes[n].id>> \o HitTestUnmasked(hitboxes, n - 1, position)
         ELSE HitTestUnmasked(hitboxes, n - 1, position)

\* The loop of Frame::hit_test from the n-th hitbox down to the first: the
\* ids of the hitboxes whose masked bounds contain the position, up to and
\* including the first opaque one.
RECURSIVE HitTestFrom(_, _, _)
HitTestFrom(hitboxes, n, position) ==
    IF n = 0
    THEN << >>
    ELSE IF position \in (hitboxes[n].bounds \cap hitboxes[n].content_mask)
         THEN IF hitboxes[n].opaque
              THEN <<hitboxes[n].id>>
              ELSE <<hitboxes[n].id>> \o HitTestFrom(hitboxes, n - 1, position)
         ELSE HitTestFrom(hitboxes, n - 1, position)

\* Frame::hit_test.
FrameHitTest(f, position) == HitTestFrom(f.hitboxes, Len(f.hitboxes), position)

\* The keys of a sequence of accessed element states.
Accessed(f) == {f.accessed_element_states[i] : i \in DOMAIN f.accessed_element_states}

\* A finish that moves every element state of the previous frame.
FrameFinishMovesAll(f, prev) ==
    [frame |-> [f EXCEPT !.element_states = @ \cup prev.element_states],
     prev |-> [prev EXCEPT !.element_states = {}]]

\* Frame::finish: every accessed key still held by the previous frame moves
\* into this frame.
FrameFinish(f, prev) ==
    [frame |-> [f EXCEPT !.element_states = @ \cup (prev.element_states \cap Accessed(f))],
     prev |-> [prev EXCEPT !.element_states = @ \ Accessed(f)]]

\* Vec::truncate: keeps the first n elements, and everything if there are fewer.
Truncate(seq, n) == SubSeq(seq, 1, IF Len(seq) < n THEN Len(seq) ELSE n)

\* DispatchTree::len and DispatchTree::truncate.
DispatchTreeLen(tree) == Len(tree)
DispatchTreeTruncate(tree, n) == Truncate(tree, n)

\* A dispatch node: its parent (0 for the root), the focus id and key context
\* set on it, and the listeners registered on it.
DispatchNode(parent, focus_id, context, action_listeners, key_listeners) ==
    [parent |-> parent,
     focus_id |-> focus_id,
     context |-> context,
     action_listeners |-> action_listeners,
     key_listeners |-> key_listeners,
     modifiers_changed_listeners |-> << >>]

\* DispatchTree::push_node then pop_node by an element without children: the
\* first node is the root, every later node a child of the root.
DispatchTreePushed(tree, focus_id) ==
    Append(tree, DispatchNode(IF Len(tree) = 0 THEN 0 ELSE 1, focus_id, None, << >>, << >>))

\* Window::prepaint_index.
PrepaintIndex(f) ==
    [hitboxes_index |-> Len(f.hitboxes),
     tooltips_index |-> Len(f.tooltip_requests),
     deferred_draws_index |-> Len(f.deferred_draws),
     dispatch_tree_index |-> DispatchTreeLen(f.dispatch_tree),
     accessed_element_states_index |-> Len(f.accessed_element_states)]

\* How many entries of the five prepaint logs f holds beyond g.
Discarded(f, g) ==
    (Len(f.hitboxes) - Len(g.hitboxes))
    + (Len(f.tooltip_requests) - Len(g.tooltip_requests))
    + (Len(f.deferred_draws) - Len(g.deferred_draws))
    + (DispatchTreeLen(f.dispatch_tree) - DispatchTreeLen(g.dispatch_tree))
    + (Len(f.accessed_element_states) - Len(g.accessed_element_states))

\* A rollback that forgets the deferred draws.
TransactRollbackKeepsDeferred(f, index) ==
    [f EXCEPT !.hitboxes = Truncate(@, index.hitboxes_index),
              !.tooltip_requests = Truncate(@, index.tooltips_index),
              !.dispatch_tree = DispatchTreeTruncate(@, index.dispatch_tree_index),
              !.accessed_element_states = Truncate(@, index.accessed_element_states_index)]

\* Window::transact, the result.is_err() branch.
TransactRollback(f, index) ==
    [f EXCEPT !.hitboxes = Truncate(@, index.hitboxes_index),
              !.tooltip_requests = Truncate(@, index.tooltips_index),
              !.deferred_draws = Truncate(@, index.deferred_draws_index),
              !.dispatch_tree = DispatchTreeTruncate(@, index.dispatch_tree_index),
              !.accessed_element_states = Truncate(@, index.accessed_element_states_index)]

\* A swap that leaves both frames where they are.
NotSwapped(r, n) == [rendered |-> r, next |-> n]

\* mem::swap(&mut self.rendered_frame, &mut self.next_frame).
SwappedFrames(r, n) == [rendered |-> n, next |-> r]

\* ------------------------------------------------------------ dispatch tree
\* What a listener does to AppContext::propagate_event when it is invoked:
\* nothing, stop_propagation() or propagate().
Applied(effect, propagate) ==
    CASE effect = "stop" -> FALSE
      [] effect = "propagate" -> TRUE
      [] OTHER -> propagate

\* A listener closure: the action type (or "KeyDown") it was registered for
\* and what it does in each phase.
Listener(on, capture, bubble) == [on |-> on, capture |-> capture, bubble |-> bubble]

\* One entry of the trace: a listener invoked in a phase at a node (0 for a
\* global listener), a keystroke replayed, or an action handed to
\* dispatch_action_on_node; `after` is propagate_event once it returned.
Invocation(kind, phase, node, listener, what) ==
    [kind |-> kind, phase |-> phase, node |-> node, listener |-> listener,
     what |-> what, after |-> TRUE]

Reversed(seq) == [i \in 1..Len(seq) |-> seq[Len(seq) + 1 - i]]

\* `let x = v; Then(x)`: v is evaluated once.
Bound(v, Then(_)) == CHOOSE out \in {Then(x) : x \in {v}} : TRUE

\* `if !cx.propagate_event { return }` after a step that left the state st:
\* the rest runs only if the event still propagates.
Continued(st, Then(_)) ==
    CHOOSE out \in {IF ~s.propagate THEN s ELSE Then(s) : s \in {st}} : TRUE

\* DispatchTree::root_node_id.
RootNodeId(tree) == 1

\* DispatchTree::focusable_node_id: the node that last registered focus_id.
FocusableNodeId(tree, focus_id) ==
    LET ns == {n \in DOMAIN tree : tree[n].focus_id = Some(focus_id)} IN
    IF ns = {} THEN None ELSE Some(CHOOSE n \in ns : \A m \in ns : m <= n)

\* DispatchTree::dispatch_path: the nodes from the root down to node.
RECURSIVE DispatchPath(_, _)
DispatchPath(tree, node) ==
    IF node = 0 THEN << >> ELSE Append(DispatchPath(tree, tree[node].parent), node)

\* The key contexts set on the nodes of a path.
ContextStack(tree, path) ==
    {tree[path[i]].context : i \in DOMAIN path} \ {None}

\* --------------------------------------------------------- focus listeners
\* DispatchTree::focus_path: the focus ids set on the nodes from the root
\* down to the node that registered focus_id.
FocusPath(tree, focus_id) ==
    Bound(FocusableNodeId(tree, focus_id), LAMBDA node :
        IF IsSome(node)
        THEN Bound(DispatchPath(tree, Unwrap(node)), LAMBDA path :
                Bound(SelectSeq(path, LAMBDA n : IsSome(tree[n].focus_id)), LAMBDA focusable :
                    [i \in 1..Len(focusable) |-> Unwrap(tree[focusable[i]].focus_id)]))
        ELSE << >>)

\* Frame::focus_path.
FrameFocusPath(f) ==
    IF IsSome(f.focus) THEN FocusPath(f.dispatch_tree, Unwrap(f.focus)) ELSE << >>

Contains(path, focus_id) == \E i \in DOMAIN path : path[i] = focus_id

WindowFocusEvent(previous_focus_path, current_focus_path) ==
    [previous_focus_path |-> previous_focus_path, current_focus_path |-> current_focus_path]

\* WindowFocusEvent::is_focus_in and is_focus_out.
IsFocusIn(event, focus_id) ==
    ~Contains(event.previous_focus_path, focus_id) /\ Contains(event.current_focus_path, focus_id)
IsFocusOut(event, focus_id) ==
    Contains(event.previous_focus_path, focus_id) /\ ~Contains(event.current_focus_path, focus_id)

\* The closures Window::on_focus_in and Window::on_focus_out register.
FocusListener(on, focus_id) == [on |-> on, focus_id |-> focus_id]

\* Whether the closure calls the listener it wraps when it is given event.
FocusListenerFires(listener, event) ==
    IF listener.on = "focus_in"
    THEN IsFocusIn(event, listener.focus_id)
    ELSE Len(event.previous_focus_path) > 0 /\ IsFocusOut(event, listener.focus_id)

\* An event that holds both paths whether or not the window was active.
DrawFocusEventOfInactive(previous, current) ==
    WindowFocusEvent(FrameFocusPath(previous), FrameFocusPath(current))

\* The event Window::draw builds: a path is left out if the window was not
\* active in its frame.
DrawFocusEvent(previous, current) ==
    WindowFocusEvent(IF previous.window_active THEN FrameFocusPath(previous) ELSE << >>,
                     IF current.window_active THEN FrameFocusPath(current) ELSE << >>)

\* A draw that tells the focus listeners of every frame.
FocusNotificationsAlways(previous, current, listeners, lost_listeners, phase) ==
    [i \in 1..Len(listeners) |->
        [kind |-> "focus", listener |-> listeners[i], draw_phase |-> phase,
         event |-> DrawFocusEvent(previous, current),
         fired |-> FocusListenerFires(listeners[i], DrawFocusEvent(previous, current))]]

\* What Window::draw does after the swap: if the focus path or the active
\* flag differs between the two frames, the focus-lost listeners are called
\* when a focus path became empty, and then every focus listener is given
\* the one event.
FocusNotifications(previous, current, listeners, lost_listeners, phase) ==
    IF FrameFocusPath(previous) # FrameFocusPath(current)
       \/ previous.window_active # current.window_active
    THEN (IF Len(FrameFocusPath(previous)) > 0 /\ Len(FrameFocusPath(current)) = 0
          THEN [i \in 1..Len(lost_listeners) |->
                    [kind |-> "focus_lost", listener |-> lost_listeners[i],
                     draw_phase |-> phase]]
          ELSE << >>)
         \o [i \in 1..Len(listeners) |->
                [kind |-> "focus", listener |-> listeners[i], draw_phase |-> phase,
                 event |-> DrawFocusEvent(previous, current),
                 fired |-> FocusListenerFires(listeners[i], DrawFocusEvent(previous, current))]]
    ELSE << >>

\* ---------------------------------------------------------------- draw pass
\* What is known of the element states as a pass begins: the keys the
\* rendered frame holds; no key has been called for or reused yet, and no
\* transact is in progress (`attempts` holds, for each one that is, the focus
\* and the element states the next frame had when it began), nor any
\* with_element_state (`calls` holds the key of each one that is).
ElementStateLog(held) ==
    [held |-> held, called |-> {}, reused |-> {}, attempts |-> << >>, calls |-> << >>]

\* What a transact finds in the next frame besides the lengths of its logs.
Attempt(f) == [focus |-> f.focus, element_states |-> f.element_states]

\* Window::refresh, and the refresh an active-status change ends with.
WindowRefresh ==
    /\ draw_phase = "None"
    /\ ~dirty
    /\ refreshing' = Refreshed(draw_phase, refreshing)
    /\ dirty' = Refreshed(draw_phase, dirty)
    /\ UNCHANGED <<focus, focus_enabled, draw_phase, pending_input>>
    /\ UNCHANGED <<registryVars, last_call, drawVars, beyondDrawVars>>

\* The on_active_status_change callback: active is set, the window refreshed.
ActiveStatusChange(b) ==
    /\ draw_phase = "None"
    /\ active # b
    /\ active' = b
    /\ refreshing' = Refreshed(draw_phase, refreshing)
    /\ dirty' = Refreshed(draw_phase, dirty)
    /\ UNCHANGED <<focus, focus_enabled, draw_phase, pending_input>>
    /\ UNCHANGED <<registryVars, last_call, frameVars, tx_stack, ops, draw_count,
                   next_hitbox_id, element_state_log, mouse_hit_test, beyondDrawVars>>

\* Window::draw up to the start of draw_roots: the window is clean and the
\* prepaint phase begins.
DrawBegin ==
    /\ draw_phase = "None"
    /\ dirty
    /\ dirty' = FALSE
    /\ draw_phase' = "Prepaint"
    /\ element_state_log' = ElementStateLog(rendered_frame.element_states)
    /\ UNCHANGED <<focus, focus_enabled, refreshing, pending_input>>
    /\ UNCHANGED <<registryVars, last_call, frameVars, active, tx_stack, ops, draw_count,
                   next_hitbox_id, mouse_hit_test, beyondDrawVars>>

\* What an element call during the pass leaves alone.
ElementCall ==
    /\ ops < MaxOps
    /\ ops' = ops + 1
    /\ UNCHANGED <<registryVars, windowVars, active, draw_count, mouse_hit_test, beyondDrawVars>>

\* Window::insert_hitbox: the hitbox takes the next id, the bounds given and
\* the content mask in force.
InsertHitbox(bounds, content_mask, opaque) ==
    /\ draw_phase = "Prepaint"
    /\ Len(next_frame.hitboxes) < MaxHitboxes
    /\ ElementCall
    /\ next_hitbox_id' = next_hitbox_id + 1
    /\ next_frame' = [next_frame EXCEPT
            !.hitboxes = Append(@, Hitbox(next_hitbox_id, bounds, content_mask, opaque))]
    /\ UNCHANGED <<rendered_frame, tx_stack, last_call, element_state_log>>

\* Window::set_tooltip.
SetTooltip ==
    /\ draw_phase = "Prepaint"
    /\ ElementCall
    /\ next_frame' = [next_frame EXCEPT !.tooltip_requests = Append(@, Some("tooltip"))]
    /\ UNCHANGED <<rendered_frame, tx_stack, last_call, next_hitbox_id, element_state_log>>

\* A deferred draw: its priority, the dispatch node it was deferred under and
\* the element to draw, which a reused deferred draw does not have.
DeferredDraw(priority, parent_node, element) ==
    [priority |-> priority, parent_node |-> parent_node, element |-> element,
     prepaint_range |-> [start |-> 0, end |-> 0],
     paint_range |-> [start |-> 0, end |-> 0]]

\* Window::defer_draw: needs an active dispatch node.
DeferDraw(priority) ==
    /\ draw_phase = "Prepaint"
    /\ DispatchTreeLen(next_frame.dispatch_tree) > 0
    /\ ElementCall
    /\ next_frame' = [next_frame EXCEPT
            !.deferred_draws = Append(@, DeferredDraw(priority, 1, Some("element")))]
    /\ UNCHANGED <<rendered_frame, tx_stack, last_call, next_hitbox_id, element_state_log>>

\* An element pushes its dispatch node and, with a focus handle, calls
\* Window::set_focus_handle: the frame's focus is set if the handle is focused.
PushDispatchNode(focus_id) ==
    /\ draw_phase = "Prepaint"
    /\ IsSome(focus_id) => strong[Unwrap(focus_id)] > 0
    /\ ElementCall
    /\ next_frame' = [next_frame EXCEPT
            !.dispatch_tree = DispatchTreePushed(@, focus_id),
            !.focus = IF IsSome(focus_id) /\ focus = focus_id THEN focus_id ELSE @]
    /\ UNCHANGED <<rendered_frame, tx_stack, last_call, next_hitbox_id, element_state_log>>

\* Window::with_element_state with a closure that makes no further call: the
\* key is recorded as accessed and its state, taken from the next frame or
\* else from the rendered frame, is stored in the next frame.
WithElementState(key) ==
    /\ draw_phase \in {"Prepaint", "Paint"}
    /\ ElementCall
    /\ next_frame' = [next_frame EXCEPT
            !.accessed_element_states = Append(@, key),
            !.element_states = @ \cup {key}]
    /\ rendered_frame' = [rendered_frame EXCEPT
            !.element_states = IF key \in next_frame.element_states THEN @ ELSE @ \ {key}]
    /\ element_state_log' = [element_state_log EXCEPT !.called = @ \cup {key}]
    /\ UNCHANGED <<tx_stack, last_call, next_hitbox_id>>

\* with_element_state, the state handed to the closure: the box removed from
\* the next frame's map or else from the rendered frame's holds a state, and
\* state_box.take() gives it; without a box the closure is given None. A box
\* is never in a map while its state is taken, so the expect() on take()
\* cannot fail.
TakenState(next, rendered, key) ==
    IF key \in next.element_states \cup rendered.element_states THEN "Some" ELSE "None"

\* Window::with_element_state up to the call of its closure: the key is
\* recorded as accessed and its box removed from the frame that held it.
WithElementStateCall(key) ==
    /\ draw_phase \in {"Prepaint", "Paint"}
    /\ Len(element_state_log.calls) < MaxNesting
    /\ ElementCall
    /\ next_frame' = [next_frame EXCEPT
            !.accessed_element_states = Append(@, key),
            !.element_states = @ \ {key}]
    /\ rendered_frame' = [rendered_frame EXCEPT
            !.element_states = IF key \in next_frame.element_states THEN @ ELSE @ \ {key}]
    /\ element_state_log' = [element_state_log EXCEPT
            !.called = @ \cup {key},
            !.calls = Append(@, key)]
    /\ last_call' = Call("with_element_state", key, TakenState(next_frame, rendered_frame, key))
    /\ UNCHANGED <<tx_stack, next_hitbox_id>>

\* Window::with_element_state after its closure returned: the state the
\* closure gave back is inserted into the next frame under the key.
WithElementStateReturn ==
    /\ draw_phase \in {"Prepaint", "Paint"}
    /\ element_state_log.calls # << >>
    /\ LET key == element_state_log.calls[Len(element_state_log.calls)] IN
        /\ next_frame' = [next_frame EXCEPT !.element_states = @ \cup {key}]
        /\ last_call' = Call("with_element_state_return", key, "ok")
    /\ element_state_log' = [element_state_log EXCEPT !.calls = SubSeq(@, 1, Len(@) - 1)]
    /\ UNCHANGED <<registryVars, windowVars, rendered_frame, active, tx_stack, ops, draw_count,
                   next_hitbox_id, mouse_hit_test, beyondDrawVars>>

\* Window::paint_index.
PaintIndex(f) ==
    [scene_index |-> Len(f.scene),
     mouse_listeners_index |-> Len(f.mouse_listeners),
     input_handlers_index |-> Len(f.input_handlers),
     cursor_styles_index |-> Len(f.cursor_styles),
     accessed_element_states_index |-> Len(f.accessed_element_states)]

\* vec[start..end], and the vector after take() on each of these entries.
Slice(seq, start, end) == SubSeq(seq, start + 1, end)
Taken(seq, start, end) ==
    [i \in 1..Len(seq) |-> IF start < i /\ i <= end THEN None ELSE seq[i]]

\* The keys a slice of the access list names.
SliceKeys(f, start, end) ==
    {f.accessed_element_states[i] : i \in (start + 1)..end}

\* DispatchTree::reuse_subtree: the nodes of the range are spliced into the
\* tree under its root, and the result tells whether one of them holds the
\* focus.
DispatchTreeReuseSubtree(tree, start, end, source, focused) ==
    [tree |-> tree \o [i \in 1..(end - start) |->
                        [source[start + i] EXCEPT
                            !.parent = IF Len(tree) + i = 1 THEN 0 ELSE 1]],
     contains_focus |-> \E i \in (start + 1)..end :
                            IsSome(focused) /\ source[i].focus_id = focused]

\* Window::reuse_prepaint: the entries the range names in the rendered
\* frame's prepaint logs are appended to the next frame's.
ReusePrepaint(range) ==
    /\ draw_phase = "Prepaint"
    /\ Len(next_frame.hitboxes) + (range.end.hitboxes_index - range.start.hitboxes_index)
            <= MaxHitboxes
    /\ ElementCall
    /\ \E reused_subtree \in {DispatchTreeReuseSubtree(next_frame.dispatch_tree,
                                    range.start.dispatch_tree_index,
                                    range.end.dispatch_tree_index,
                                    rendered_frame.dispatch_tree, focus)} :
        next_frame' = [next_frame EXCEPT
            !.hitboxes = @ \o Slice(rendered_frame.hitboxes,
                                    range.start.hitboxes_index, range.end.hitboxes_index),
            !.tooltip_requests = @ \o Slice(rendered_frame.tooltip_requests,
                                    range.start.tooltips_index, range.end.tooltips_index),
            !.accessed_element_states = @ \o Slice(rendered_frame.accessed_element_states,
                                    range.start.accessed_element_states_index,
                                    range.end.accessed_element_states_index),
            !.dispatch_tree = reused_subtree.tree,
            !.focus = IF reused_subtree.contains_focus THEN focus ELSE @,
            !.deferred_draws = @ \o
                [i \in 1..(range.end.deferred_draws_index - range.start.deferred_draws_index) |->
                    DeferredDraw(
                        rendered_frame.deferred_draws[range.start.deferred_draws_index + i].priority,
                        1, None)]]
    /\ rendered_frame' = [rendered_frame EXCEPT
            !.tooltip_requests = Taken(@, range.start.tooltips_index, range.end.tooltips_index)]
    /\ element_state_log' = [element_state_log EXCEPT
            !.reused = @ \cup SliceKeys(rendered_frame,
                                        range.start.accessed_element_states_index,
                                        range.end.accessed_element_states_index)]
    /\ UNCHANGED <<tx_stack, last_call, next_hitbox_id>>

\* Window::reuse_paint: the entries the range names in the rendered frame's
\* paint logs are appended to the next frame's.
ReusePaint(range) ==
    /\ draw_phase = "Paint"
    /\ ElementCall
    /\ next_frame' = [next_frame EXCEPT
            !.cursor_styles = @ \o Slice(rendered_frame.cursor_styles,
                    range.start.cursor_styles_index, range.end.cursor_styles_index),
            !.input_handlers = @ \o Slice(rendered_frame.input_handlers,
                    range.start.input_handlers_index, range.end.input_handlers_index),
            !.mouse_listeners = @ \o Slice(rendered_frame.mouse_listeners,
                    range.start.mouse_listeners_index, range.end.mouse_listeners_index),
            !.accessed_element_states = @ \o Slice(rendered_frame.accessed_element_states,
                    range.start.accessed_element_states_index,
                    range.end.accessed_element_states_index),
            !.scene = @ \o Slice(rendered_frame.scene,
                    range.start.scene_index, range.end.scene_index)]
    /\ rendered_frame' = [rendered_frame EXCEPT
            !.input_handlers = Taken(@, range.start.input_handlers_index,
                                        range.end.input_handlers_index),
            !.mouse_listeners = Taken(@, range.start.mouse_listeners_index,
                                         range.end.mouse_listeners_index)]
    /\ element_state_log' = [element_state_log EXCEPT
            !.reused = @ \cup SliceKeys(rendered_frame,
                                        range.start.accessed_element_states_index,
                                        range.end.accessed_element_states_index)]
    /\ UNCHANGED <<tx_stack, last_call, next_hitbox_id>>

\* Window::transact up to the call of its closure: the index is taken.
TransactBegin ==
    /\ draw_phase = "Prepaint"
    /\ Len(tx_stack) < MaxTxDepth
    /\ ElementCall
    /\ tx_stack' = Append(tx_stack, PrepaintIndex(next_frame))
    /\ element_state_log' = [element_state_log EXCEPT
            !.attempts = Append(@, Attempt(next_frame))]
    /\ UNCHANGED <<frameVars, last_call, next_hitbox_id>>

\* Window::transact after its closure returned Ok or Err.
TransactEnd(ok) ==
    /\ draw_phase = "Prepaint"
    /\ Len(tx_stack) > 0
    /\ tx_stack' = SubSeq(tx_stack, 1, Len(tx_stack) - 1)
    /\ next_frame' = IF ok THEN next_frame
                     ELSE TransactRollback(next_frame, tx_stack[Len(tx_stack)])
    /\ last_call' = Call("transact", Discarded(next_frame, next_frame'),
                         IF ok THEN "Ok" ELSE "Err")
    /\ element_state_log' = [element_state_log EXCEPT
            !.attempts = SubSeq(@, 1, Len(@) - 1)]
    /\ UNCHANGED <<registryVars, windowVars, rendered_frame, active, ops, draw_count,
                   next_hitbox_id, mouse_hit_test, beyondDrawVars>>

\* The mutation of PrepaintEnd that keeps the hit test of the previous frame.
PrepaintEndKeepsHitTest ==
    /\ draw_phase = "Prepaint"
    /\ tx_stack = << >>
    /\ draw_phase' = "Paint"
    /\ UNCHANGED <<focus, focus_enabled, dirty, refreshing, pending_input>>
    /\ UNCHANGED <<registryVars, last_call, frameVars, active, tx_stack, ops, draw_count,
                   next_hitbox_id, element_state_log, mouse_hit_test, beyondDrawVars>>

\* draw_roots between prepaint and paint: the hit test of the mouse position
\* against the frame being built is stored.
PrepaintEnd ==
    /\ draw_phase = "Prepaint"
    /\ tx_stack = << >>
    /\ mouse_hit_test' = FrameHitTest(next_frame, mouse_position)
    /\ draw_phase' = "Paint"
    /\ UNCHANGED <<focus, focus_enabled, dirty, refreshing, pending_input>>
    /\ UNCHANGED <<registryVars, last_call, frameVars, active, tx_stack, ops, draw_count,
                   next_hitbox_id, element_state_log, beyondDrawVars>>

\* Window::paint_quad and the other primitives: one more entry in the scene.
PaintQuad ==
    /\ draw_phase = "Paint"
    /\ ElementCall
    /\ next_frame' = [next_frame EXCEPT !.scene = Append(@, "quad")]
    /\ UNCHANGED <<rendered_frame, tx_stack, last_call, next_hitbox_id, element_state_log>>

\* Window::on_mouse_event.
OnMouseEvent(listener) ==
    /\ draw_phase = "Paint"
    /\ ElementCall
    /\ next_frame' = [next_frame EXCEPT !.mouse_listeners = Append(@, Some(listener))]
    /\ UNCHANGED <<rendered_frame, tx_stack, last_call, next_hitbox_id, element_state_log>>

\* Window::set_cursor_style.
SetCursorStyle ==
    /\ draw_phase = "Paint"
    /\ Len(next_frame.hitboxes) > 0
    /\ ElementCall
    /\ next_frame' = [next_frame EXCEPT !.cursor_styles = Append(@, "style")]
    /\ UNCHANGED <<rendered_frame, tx_stack, last_call, next_hitbox_id, element_state_log>>

\* The methods of the window an element calls while it is drawn.
ElementMethods ==
    {"insert_hitbox", "set_cursor_style", "on_mouse_event", "on_key_event", "on_action",
     "set_focus_handle", "set_key_context", "defer_draw", "paint_quad"}

\* The phase the debug_assert_eq! at the head of a method compares
\* draw_phase with; on_action has no assertion.
DebugAssertedPhase(method) ==
    CASE method \in {"insert_hitbox", "set_focus_handle", "defer_draw"} -> Some("Prepaint")
      [] method \in {"set_cursor_style", "on_mouse_event", "on_key_event",
                     "set_key_context", "paint_quad"} -> Some("Paint")
      [] method = "on_action" -> None

\* The methods that act on the active dispatch node, which is the root's
\* while the root element is drawn.
NodeMethods == {"on_key_event", "on_action", "set_focus_handle", "set_key_context",
                "defer_draw"}

\* What a method does to the next frame once its assertion passed: `id` is
\* the next hitbox id, `focused` whether the handle given is focused.
MethodEffect(method, f, id, focused) ==
    CASE method = "insert_hitbox" ->
            [f EXCEPT !.hitboxes = Append(@, Hitbox(id, Viewport, Viewport, TRUE))]
      [] method = "set_cursor_style" -> [f EXCEPT !.cursor_styles = Append(@, "style")]
      [] method = "on_mouse_event" ->
            [f EXCEPT !.mouse_listeners =
                        Append(@, Some(MouseListener("MouseDown", "none", "none")))]
      [] method = "on_key_event" ->
            [f EXCEPT !.dispatch_tree[1].key_listeners =
                        Append(@, Listener("KeyDown", "none", "none"))]
      [] method = "on_action" ->
            [f EXCEPT !.dispatch_tree[1].action_listeners =
                        Append(@, Listener("Save", "none", "stop"))]
      [] method = "set_focus_handle" ->
            [f EXCEPT !.dispatch_tree[1].focus_id = Some(1),
                      !.focus = IF focused THEN Some(1) ELSE @]
      [] method = "set_key_context" -> [f EXCEPT !.dispatch_tree[1].context = Some("Editor")]
      [] method = "defer_draw" ->
            [f EXCEPT !.deferred_draws = Append(@, DeferredDraw(0, 1, Some("element")))]
      [] method = "paint_quad" -> [f EXCEPT !.scene = Append(@, "quad")]

\* A call of a method in whatever phase the window is in, in a debug build:
\* the assertion panics before anything is changed if the phase is not the
\* asserted one; otherwise the method acts on the next frame.
ElementMethod(method) ==
    /\ window_alive
    /\ ops < MaxOps
    /\ ops' = ops + 1
    /\ IF /\ IsSome(DebugAssertedPhase(method))
          /\ draw_phase # Unwrap(DebugAssertedPhase(method))
       THEN /\ last_call' = Call(method, ops', "panic")
            /\ UNCHANGED <<next_frame, next_hitbox_id>>
       ELSE /\ method \in NodeMethods => DispatchTreeLen(next_frame.dispatch_tree) > 0
            /\ method = "set_cursor_style" => Len(next_frame.hitboxes) > 0
            /\ method = "insert_hitbox" => Len(next_frame.hitboxes) < MaxHitboxes
            /\ method = "set_focus_handle" => strong[1] > 0
            /\ next_frame' = MethodEffect(method, next_frame, next_hitbox_id, focus = Some(1))
            /\ next_hitbox_id' = IF method = "insert_hitbox"
                                 THEN next_hitbox_id + 1 ELSE next_hitbox_id
            /\ last_call' = Call(method, ops', "ok")
    /\ UNCHANGED <<registryVars, windowVars, rendered_frame, active, tx_stack, draw_count,
                   mouse_hit_test, element_state_log, beyondDrawVars>>

\* A draw that swaps the frames and tells the focus listeners while the
\* phase is still Paint.
DrawSwapInPaint ==
    /\ draw_phase = "Paint"
    /\ \E fin \in {FrameFinish([next_frame EXCEPT !.window_active = active], rendered_frame)} :
        /\ rendered_frame' = fin.frame
        /\ next_frame' = FrameClear(fin.prev)
    /\ draw_phase' = "Focus"
    /\ focus_trace' = FocusNotifications(rendered_frame, rendered_frame',
                                         focus_listeners, focus_lost_listeners, draw_phase)
    /\ draw_count' = (draw_count + 1) % 2
    /\ UNCHANGED <<focus, focus_enabled, dirty, refreshing, pending_input>>
    /\ UNCHANGED <<registryVars, last_call, active, tx_stack, ops,
                   next_hitbox_id, element_state_log, mouse_hit_test, dispatchVars,
                   mouse_position>>
    /\ UNCHANGED beyondWindowVars

\* Window::draw from the end of draw_roots to the swap: the next frame takes
\* the active flag and the accessed element states, the frames are swapped
\* and the frame that is now next is cleared.
DrawSwap ==
    /\ draw_phase = "Paint"
    /\ LET built == [next_frame EXCEPT !.window_active = active]
           fin == FrameFinish(built, rendered_frame)
           sw == SwappedFrames(fin.prev, fin.frame) IN
        /\ rendered_frame' = sw.rendered
        /\ next_frame' = FrameClear(sw.next)
    /\ draw_phase' = "Focus"
    /\ focus_trace' = FocusNotifications(rendered_frame, rendered_frame',
                                         focus_listeners, focus_lost_listeners, draw_phase')
    /\ draw_count' = (draw_count + 1) % 2
    /\ UNCHANGED <<focus, focus_enabled, dirty, refreshing, pending_input>>
    /\ UNCHANGED <<registryVars, last_call, active, tx_stack, ops,
                   next_hitbox_id, element_state_log, mouse_hit_test, dispatchVars,
                   mouse_position>>
    /\ UNCHANGED beyondWindowVars

\* Window::draw after the focus listeners: the pass is over.
\* The mutation of SortedDeferredDraws that keeps the registration order.
RegistrationOrder(deferred_draws) == [ix \in DOMAIN deferred_draws |-> ix]

RECURSIVE SortedByKeyFrom(_, _)
\* The indices whose priority is at least p, by priority, and in index order
\* within one priority.
SortedByKeyFrom(deferred_draws, p) ==
    IF \A ix \in DOMAIN deferred_draws : deferred_draws[ix].priority < p
    THEN << >>
    ELSE SelectSeq([ix \in DOMAIN deferred_draws |-> ix],
                   LAMBDA ix : deferred_draws[ix].priority = p)
         \o SortedByKeyFrom(deferred_draws, p + 1)

\* draw_roots: sorted_deferred_draws, the indices 0..len sorted by priority
\* with sort_by_key, a stable sort.
SortedDeferredDraws(deferred_draws) == SortedByKeyFrom(deferred_draws, 0)

RECURSIVE PrepaintedDeferredDraws(_, _, _, _)
\* Window::prepaint_deferred_draws, from the loop on: the list is out of the
\* frame while each deferred element in turn is prepainted, here by inserting
\* one hitbox, and gets the range of prepaint indices it covered.
PrepaintedDeferredDraws(f, deferred_draws, indices, hitbox_id) ==
    IF indices = << >>
    THEN [f EXCEPT !.deferred_draws = deferred_draws]
    ELSE LET ix == Head(indices)
             g == IF IsSome(deferred_draws[ix].element)
                  THEN [f EXCEPT !.hitboxes =
                            Append(@, Hitbox(hitbox_id, Viewport, Viewport, FALSE))]
                  ELSE f
         IN PrepaintedDeferredDraws(
                g,
                [deferred_draws EXCEPT ![ix].prepaint_range =
                    [start |-> PrepaintIndex(f).hitboxes_index,
                     end |-> PrepaintIndex(g).hitboxes_index]],
                Tail(indices), hitbox_id + 1)

RECURSIVE PaintedDeferredDraws(_, _, _)
\* Window::paint_deferred_draws, from the loop on: each deferred element in
\* turn is painted, here as one quad, and gets the range of paint indices it
\* covered.
PaintedDeferredDraws(f, deferred_draws, indices) ==
    IF indices = << >>
    THEN [f EXCEPT !.deferred_draws = deferred_draws]
    ELSE LET ix == Head(indices)
             g == IF IsSome(deferred_draws[ix].element)
                  THEN [f EXCEPT !.scene = Append(@, "quad")]
                  ELSE f
         IN PaintedDeferredDraws(
                g,
                [deferred_draws EXCEPT ![ix].paint_range =
                    [start |-> PaintIndex(f).scene_index,
                     end |-> PaintIndex(g).scene_index]],
                Tail(indices))

\* draw_roots from the end of the root element's prepaint to the paint phase,
\* for deferred elements that each insert a hitbox: the deferred draws are
\* prepainted in sorted order, then the hit test is stored.
PrepaintDeferredDraws ==
    /\ draw_phase = "Prepaint"
    /\ tx_stack = << >>
    /\ next_frame' = PrepaintedDeferredDraws(
            [next_frame EXCEPT !.deferred_draws = << >>], next_frame.deferred_draws,
            SortedDeferredDraws(next_frame.deferred_draws), next_hitbox_id)
    /\ next_hitbox_id' = next_hitbox_id + Len(next_frame.deferred_draws)
    /\ mouse_hit_test' = FrameHitTest(next_frame', mouse_position)
    /\ draw_phase' = "Paint"
    /\ UNCHANGED <<focus, focus_enabled, dirty, refreshing, pending_input>>
    /\ UNCHANGED <<registryVars, last_call, rendered_frame, active, tx_stack, ops, draw_count,
                   element_state_log, beyondDrawVars>>

\* draw_roots from the end of the root element's paint, and the rest of
\* Window::draw up to the swap: the deferred draws are painted in the order
\* they were prepainted in, then the frame is finished and swapped in.
PaintDeferredDraws ==
    /\ draw_phase = "Paint"
    /\ LET built == [PaintedDeferredDraws(
                        [next_frame EXCEPT !.deferred_draws = << >>],
                        next_frame.deferred_draws,
                        SortedDeferredDraws(next_frame.deferred_draws))
                     EXCEPT !.window_active = active]
           fin == FrameFinish(built, rendered_frame)
           sw == SwappedFrames(fin.prev, fin.frame) IN
        /\ rendered_frame' = sw.rendered
        /\ next_frame' = FrameClear(sw.next)
    /\ draw_phase' = "Focus"
    /\ focus_trace' = FocusNotifications(rendered_frame, rendered_frame',
                                         focus_listeners, focus_lost_listeners, draw_phase')
    /\ draw_count' = (draw_count + 1) % 2
    /\ UNCHANGED <<focus, focus_enabled, dirty, refreshing, pending_input>>
    /\ UNCHANGED <<registryVars, last_call, active, tx_stack, ops,
                   next_hitbox_id, element_state_log, mouse_hit_test, dispatchVars,
                   mouse_position>>
    /\ UNCHANGED beyondWindowVars

DrawEnd ==
    /\ draw_phase = "Focus"
    /\ refreshing' = FALSE
    /\ draw_phase' = "None"
    /\ UNCHANGED <<focus, focus_enabled, dirty, pending_input>>
    /\ UNCHANGED <<registryVars, last_call, drawVars, beyondDrawVars>>

\* ----------------------------------------------------------- action dispatch
\* One listener call: the listener's effect on propagate_event, logged.
Called(e, st, preset) ==
    LET before == IF preset THEN FALSE ELSE st.propagate
        effect == IF e.phase = "Capture" THEN e.listener.capture ELSE e.listener.bubble IN
    [trace |-> Append(st.trace, [e EXCEPT !.after = Applied(effect, before)]),
     propagate |-> Applied(effect, before)]

\* A run of listener calls: each call is logged with the value of
\* propagate_event it left, and the run ends with the first call that left it
\* false. With `preset` the flag is set to false before every call.
RECURSIVE Invoked(_, _, _)
Invoked(entries, st, preset) ==
    IF entries = << >>
    THEN st
    ELSE Continued(Called(Head(entries), st, preset),
                   LAMBDA st2 : Invoked(Tail(entries), st2, preset))

\* The global listeners registered for the action's type, in registration order.
GlobalEntries(globals, action, phase) ==
    [i \in 1..Len(globals[action]) |->
        Invocation("global", phase, 0, globals[action][i], action)]

\* The listeners on the nodes of a path whose action_type is the action's type.
RECURSIVE WindowEntries(_, _, _, _)
WindowEntries(tree, path, action, phase) ==
    IF path = << >>
    THEN << >>
    ELSE LET node == Head(path)
             ls == SelectSeq(tree[node].action_listeners, LAMBDA l : l.on = action) IN
         [i \in 1..Len(ls) |-> Invocation("action", phase, node, ls[i], action)]
             \o WindowEntries(tree, Tail(path), action, phase)

\* dispatch_action_on_node, capture phase for global actions.
GlobalCapture(globals, action, st) ==
    Invoked(GlobalEntries(globals, action, "Capture"), st, FALSE)

\* A window capture phase that visits the target first.
WindowCaptureFromTarget(tree, path, action, st) ==
    Invoked(WindowEntries(tree, Reversed(path), action, "Capture"), st, FALSE)

\* dispatch_action_on_node, capture phase for window actions: root to target.
WindowCapture(tree, path, action, st) ==
    Invoked(WindowEntries(tree, path, action, "Capture"), st, FALSE)

\* A window bubble phase without the default stop.
WindowBubbleKeepsPropagating(tree, path, action, st) ==
    Invoked(WindowEntries(tree, Reversed(path), action, "Bubble"), st, FALSE)

\* dispatch_action_on_node, bubble phase for window actions: target to root,
\* propagate_event set to false before every matching listener.
WindowBubble(tree, path, action, st) ==
    Invoked(WindowEntries(tree, Reversed(path), action, "Bubble"), st, TRUE)

\* dispatch_action_on_node, bubble phase for global actions: last registered
\* first, propagate_event set to false before every listener.
GlobalBubble(globals, action, st) ==
    Invoked(Reversed(GlobalEntries(globals, action, "Bubble")), st, TRUE)

\* What dispatch_action_on_node starts from: the call is logged and
\* propagate_event set.
DispatchStarted(node, action, trace0) ==
    [trace |-> Append(trace0, Invocation("dispatch_action", "None", node,
                                         Listener("", "none", "none"), action)),
     propagate |-> TRUE]

\* A dispatch that goes on to the window listeners after a global capture
\* listener stopped propagation.
DispatchActionOnNodeNoReturn(tree, globals, node, action, trace0) ==
    Bound(GlobalCapture(globals, action, DispatchStarted(node, action, trace0)), LAMBDA s1 :
    Continued(WindowCapture(tree, DispatchPath(tree, node), action, s1), LAMBDA s2 :
    Continued(WindowBubble(tree, DispatchPath(tree, node), action, s2), LAMBDA s3 :
    GlobalBubble(globals, action, s3))))

\* Window::dispatch_action_on_node: the four stages, each left as soon as a
\* listener leaves propagate_event false.
DispatchActionOnNode(tree, globals, node, action, trace0) ==
    Continued(GlobalCapture(globals, action, DispatchStarted(node, action, trace0)), LAMBDA s1 :
    Continued(WindowCapture(tree, DispatchPath(tree, node), action, s1), LAMBDA s2 :
    Continued(WindowBubble(tree, DispatchPath(tree, node), action, s2), LAMBDA s3 :
    GlobalBubble(globals, action, s3))))

\* FocusHandle::dispatch_action: the action is dispatched at the node that
\* rendered the handle, if the rendered frame has one.
FocusHandleDispatchAction(id, action) ==
    /\ window_alive
    /\ strong[id] > 0
    /\ draw_phase = "None"
    /\ LET tree == rendered_frame.dispatch_tree
           node == FocusableNodeId(tree, id) IN
        IF IsSome(node)
        THEN \E r \in {DispatchActionOnNode(tree, global_action_listeners,
                                            Unwrap(node), action, << >>)} :
             /\ trace' = r.trace
             /\ propagate_event' = r.propagate
        ELSE UNCHANGED <<trace, propagate_event>>
    /\ last_call' = Call("dispatch_action", id, action)
    /\ UNCHANGED <<registryVars, windowVars, drawVars, global_action_listeners, focus_listeners,
                   focus_lost_listeners, focus_trace,
                   pending_modifier, modifiers, keystroke_events, input_log,
                   mouse_position>>
    /\ UNCHANGED beyondWindowVars

\* ------------------------------------------------------------ key matching
\* The keys of the keyboard and its modifiers.
Keys == {"a", "b", "s"}
Modifiers == {"shift", "control"}

KeyBinding(keystrokes, action, context) ==
    [keystrokes |-> keystrokes, action |-> action, context |-> context]

\* The keymap: in the key context Editor, "a b" and "s" are both bound to
\* Save, "c" to Save and to Undo, and a tap of shift to Undo.
KeyBindings ==
    <<KeyBinding(<<"a", "b">>, "Save", Some("Editor")),
      KeyBinding(<<"s">>, "Save", Some("Editor")),
      KeyBinding(<<"c">>, "Save", Some("Editor")),
      KeyBinding(<<"c">>, "Undo", Some("Editor")),
      KeyBinding(<<"shift">>, "Undo", Some("Editor"))>>

IsPrefix(p, s) == Len(p) <= Len(s) /\ SubSeq(s, 1, Len(p)) = p

\* DispatchTree::bindings_for_input: the bindings of the contexts on the path
\* that the input spells out, and whether it is a proper prefix of one.
BindingsForInput(input, tree, path) ==
    LET enabled == SelectSeq(KeyBindings,
            LAMBDA b : b.context = None \/ b.context \in ContextStack(tree, path)) IN
    [bindings |-> SelectSeq(enabled, LAMBDA b : b.keystrokes = input),
     pending |-> \E i \in DOMAIN enabled :
                    /\ IsPrefix(input, enabled[i].keystrokes)
                    /\ Len(input) < Len(enabled[i].keystrokes)]

Replay(keystroke, bindings) == [keystroke |-> keystroke, bindings |-> bindings]

\* DispatchTree::replay_prefix: the longest prefix of the input that is bound
\* is replayed with its bindings, or else the first keystroke without any;
\* the rest of the input is the suffix.
ReplayPrefix(input, tree, path) ==
    LET bound == {n \in 1..Len(input) :
                    BindingsForInput(SubSeq(input, 1, n), tree, path).bindings # << >>} IN
    IF bound # {}
    THEN LET last == CHOOSE n \in bound : \A m \in bound : m <= n IN
         [suffix |-> SubSeq(input, last + 1, Len(input)),
          to_replay |-> <<Replay(input[last],
                    BindingsForInput(SubSeq(input, 1, last), tree, path).bindings)>>]
    ELSE [suffix |-> Tail(input), to_replay |-> <<Replay(input[1], << >>)>>]

\* DispatchTree::dispatch_key: the keystroke is appended to the pending input;
\* the result is the input as the new pending prefix, or the bindings it
\* spells out, or nothing for a single unbound keystroke, or else a prefix
\* to replay followed by the result for the rest.
RECURSIVE DispatchKey(_, _, _, _)
DispatchKey(input, keystroke, tree, path) ==
    LET pushed == Append(input, keystroke)
        m == BindingsForInput(pushed, tree, path) IN
    IF m.pending
    THEN [bindings |-> << >>, pending |-> pushed, to_replay |-> << >>]
    ELSE IF m.bindings # << >>
    THEN [bindings |-> m.bindings, pending |-> << >>, to_replay |-> << >>]
    ELSE IF Len(pushed) = 1
    THEN [bindings |-> << >>, pending |-> << >>, to_replay |-> << >>]
    ELSE LET rp == ReplayPrefix(input, tree, path)
             result == DispatchKey(rp.suffix, keystroke, tree, path) IN
         [result EXCEPT !.to_replay = rp.to_replay \o @]

\* DispatchTree::flush_dispatch: the whole pending input becomes replays.
RECURSIVE FlushDispatch(_, _, _)
FlushDispatch(input, tree, path) ==
    LET rp == ReplayPrefix(input, tree, path) IN
    IF rp.suffix # << >>
    THEN rp.to_replay \o FlushDispatch(rp.suffix, tree, path)
    ELSE rp.to_replay

\* ------------------------------------------------------------- key dispatch
\* dispatch_key_event and replay_pending_input: the node of the focused
\* element in the rendered frame, or the root.
TargetNode(tree, f) ==
    IF IsSome(f) /\ IsSome(FocusableNodeId(tree, Unwrap(f)))
    THEN Unwrap(FocusableNodeId(tree, Unwrap(f)))
    ELSE RootNodeId(tree)

\* PendingInput: the keystrokes, the focus they were typed under and the
\* timer task, which captured the target node.
PendingInput(keystrokes, f, node) == [keystrokes |-> keystrokes, focus |-> f, timer |-> node]

\* A pending input that is forgotten with every keystroke.
CurrentlyPendingForgotten(pending, f) == << >>

\* A pending input that is carried on under whatever focus.
CurrentlyPendingUnderAnyFocus(pending, f) ==
    IF IsSome(pending) THEN Unwrap(pending).keystrokes ELSE << >>

\* dispatch_key_event: the pending keystrokes are taken, and dropped if they
\* were typed under a focus that is no longer the window's.
CurrentlyPending(pending, f) ==
    IF ~IsSome(pending)
    THEN << >>
    ELSE IF IsSome(Unwrap(pending).focus) /\ Unwrap(pending).focus # f
         THEN << >>
         ELSE Unwrap(pending).keystrokes

\* The event type a key listener must have been registered for to be given
\* a key-down event of a key, or a modifiers-changed event.
KeyEventType(key) == IF key = "ModifiersChanged" THEN "ModifiersChanged" ELSE "KeyDown"

\* The key listeners on the nodes of a path whose handler takes the event.
RECURSIVE KeyEntries(_, _, _, _)
KeyEntries(tree, path, key, phase) ==
    IF path = << >>
    THEN << >>
    ELSE LET node == Head(path)
             ls == SelectSeq(tree[node].key_listeners,
                             LAMBDA l : l.on = KeyEventType(key)) IN
         [i \in 1..Len(ls) |-> Invocation("key", phase, node, ls[i], key)]
             \o KeyEntries(tree, Tail(path), key, phase)

\* The listeners Window::on_modifiers_changed registered on the nodes of a
\* path. They are given no phase.
RECURSIVE ModifiersChangedEntries(_, _)
ModifiersChangedEntries(tree, path) ==
    IF path = << >>
    THEN << >>
    ELSE LET node == Head(path)
             ls == tree[node].modifiers_changed_listeners IN
         [i \in 1..Len(ls) |->
                Invocation("modifiers_changed", "None", node, ls[i], "ModifiersChanged")]
             \o ModifiersChangedEntries(tree, Tail(path))

\* A modifiers-changed dispatch that starts at the root.
DispatchModifiersChangedEventFromRoot(tree, path, st) ==
    Invoked(ModifiersChangedEntries(tree, path), st, FALSE)

\* Window::dispatch_modifiers_changed_event: one traversal from the target
\* to the root, until a listener stops it.
DispatchModifiersChangedEvent(tree, path, st) ==
    Invoked(ModifiersChangedEntries(tree, Reversed(path)), st, FALSE)

\* A key event that reaches no listener.
DispatchKeyDownUpEventSkipped(tree, path, key, st) == st

\* Window::dispatch_key_down_up_event: capture from the root to the target,
\* then bubble from the target to the root, until a listener stops it.
DispatchKeyDownUpEvent(tree, path, key, st) ==
    Continued(Invoked(KeyEntries(tree, path, key, "Capture"), st, FALSE), LAMBDA s1 :
    Invoked(KeyEntries(tree, Reversed(path), key, "Bubble"), s1, FALSE))

\* KeystrokeEvent: a keystroke and the action it resolved to, if any.
KeystrokeEvent(keystroke, action) ==
    [kind |-> "keystroke_observer", keystroke |-> keystroke, action |-> action]

\* Keystroke observers that are told of every event, key-down or not.
DispatchKeystrokeObserversOfAnyEvent(event, action, st) ==
    [st EXCEPT !.trace = Append(@, KeystrokeEvent(
                            IF IsSome(event) THEN Unwrap(event) ELSE "ModifiersChanged",
                            action))]

\* Window::dispatch_keystroke_observers: the observers are handed the
\* keystroke of a key-down event (`event` is its key) and the action; any
\* other event (None) is not a KeyDownEvent and is not passed on.
DispatchKeystrokeObservers(event, action, st) ==
    IF IsSome(event)
    THEN [st EXCEPT !.trace = Append(@, KeystrokeEvent(Unwrap(event), action))]
    ELSE st

\* What a dispatch invoked, and what it handed to the keystroke observers.
Invocations(calls) == SelectSeq(calls, LAMBDA e : e.kind # "keystroke_observer")
KeystrokeEvents(calls) == SelectSeq(calls, LAMBDA e : e.kind = "keystroke_observer")

\* A loop that dispatches every binding's action, handled or not.
RECURSIVE DispatchBindingsAll(_, _, _, _, _, _)
DispatchBindingsAll(tree, globals, node, bindings, event, st) ==
    IF bindings = << >>
    THEN st
    ELSE Bound(DispatchActionOnNode(tree, globals, node, Head(bindings).action, st.trace),
               LAMBDA r : DispatchBindingsAll(tree, globals, node, Tail(bindings), event, r))

\* The loop over the bindings in dispatch_key_event and replay_pending_input:
\* each binding's action is dispatched until one leaves propagation stopped,
\* and the keystroke observers are then told of that action.
RECURSIVE DispatchBindings(_, _, _, _, _, _)
DispatchBindings(tree, globals, node, bindings, event, st) ==
    IF bindings = << >>
    THEN st
    ELSE Bound(DispatchActionOnNode(tree, globals, node, Head(bindings).action, st.trace),
               LAMBDA r :
                 IF ~r.propagate
                 THEN DispatchKeystrokeObservers(event, Some(Head(bindings).action), r)
                 ELSE DispatchBindings(tree, globals, node, Tail(bindings), event, r))

\* The body of the loop of replay_pending_input for one replay.
ReplayedOne(tree, globals, node, replay, trace0) ==
    Bound(DispatchBindings(tree, globals, node, replay.bindings, Some(replay.keystroke),
            [trace |-> Append(trace0, Invocation("replay", "None", node,
                                    Listener("", "none", "none"), replay.keystroke)),
             propagate |-> TRUE]),
          LAMBDA s1 :
            IF ~s1.propagate
            THEN s1
            ELSE DispatchKeyDownUpEvent(tree, DispatchPath(tree, node), replay.keystroke, s1))

\* Window::replay_pending_input: every replayed keystroke tries its bindings
\* and, if none stops it, goes to the key listeners as a key-down event. The
\* keystrokes carry no key_char, so no input handler is involved.
RECURSIVE ReplayPendingInput(_, _, _, _, _)
ReplayPendingInput(tree, globals, f, replays, st) ==
    IF replays = << >>
    THEN st
    ELSE Bound(ReplayedOne(tree, globals, TargetNode(tree, f), Head(replays), st.trace),
               LAMBDA s2 : ReplayPendingInput(tree, globals, f, Tail(replays), s2))

\* Window::finish_dispatch_key_event: the key listeners, then, if none
\* stopped the event, the modifiers-changed listeners, which only take a
\* modifiers-changed event, then, if the event still propagates, the
\* keystroke observers with no action (`raw` is the key of a key-down event,
\* or None for a modifiers-changed event).
FinishDispatchKeyEvent(tree, path, raw, st) ==
    IF IsSome(raw)
    THEN Continued(DispatchKeyDownUpEvent(tree, path, Unwrap(raw), st),
                   LAMBDA s1 : DispatchKeystrokeObservers(raw, None, s1))
    ELSE Continued(DispatchKeyDownUpEvent(tree, path, "ModifiersChanged", st),
                   LAMBDA s1 :
         Continued(DispatchModifiersChangedEvent(tree, path, s1),
                   LAMBDA s2 : DispatchKeystrokeObservers(raw, None, s2)))

\* Window::dispatch_key_event from the point where it has a keystroke:
\* the pending input is taken, the keystroke matched, replays dispatched;
\* then either the new pending input is stored with its timer and the event
\* stopped, or the bindings are dispatched and, if none stopped the event,
\* the key listeners run.
KeystrokeDispatched(tree, globals, f, pending, keystroke, raw) ==
    Bound(TargetNode(tree, f), LAMBDA node :
    Bound(DispatchKey(CurrentlyPending(pending, f), keystroke, tree,
                      DispatchPath(tree, node)), LAMBDA m :
    Bound(IF m.to_replay # << >>
          THEN ReplayPendingInput(tree, globals, f, m.to_replay,
                                  [trace |-> << >>, propagate |-> TRUE])
          ELSE [trace |-> << >>, propagate |-> TRUE], LAMBDA s1 :
    IF m.pending # << >>
    THEN [pending_input |-> Some(PendingInput(m.pending, f, node)),
          trace |-> s1.trace,
          propagate |-> FALSE]
    ELSE Bound(Continued(DispatchBindings(tree, globals, node, m.bindings, raw,
                                          [s1 EXCEPT !.propagate = TRUE]),
                         LAMBDA s2 : FinishDispatchKeyEvent(tree, DispatchPath(tree, node),
                                                            raw, s2)),
               LAMBDA s3 : [pending_input |-> None,
                            trace |-> s3.trace,
                            propagate |-> s3.propagate]))))

\* Window::draw for a view that renders the same elements as in the rendered
\* frame: the next frame gets their dispatch nodes, the focus if the focused
\* handle is among them and the active flag; the frames are then swapped and
\* the frame that is now next is cleared.
DrawnView(r, n, f, act) ==
    LET built == [n EXCEPT
                    !.dispatch_tree = r.dispatch_tree,
                    !.focus = IF IsSome(f) /\ IsSome(FocusableNodeId(r.dispatch_tree, Unwrap(f)))
                              THEN f ELSE None,
                    !.window_active = act]
        fin == FrameFinish(built, r)
        sw == SwappedFrames(fin.prev, fin.frame) IN
    [rendered |-> sw.rendered, next |-> FrameClear(sw.next)]

\* A key event as the log holds it: a key-down with its key, or a
\* modifiers-changed event with the modifiers held after it.
InputEvent(kind, what) == [kind |-> kind, what |-> what]
Logged(log, event) == IF IsSome(log) THEN Some(Append(Unwrap(log), event)) ELSE log

\* dispatch_key_event: the key a held modifier is named after; shift comes
\* before control.
ModifierKey(held) == IF "shift" \in held THEN "shift" ELSE "control"

\* What dispatch_key_event starts with: a draw if the window is dirty.
KeyEventDraw ==
    /\ window_alive
    /\ draw_phase = "None"
    /\ LET fr == IF dirty
                 THEN DrawnView(rendered_frame, next_frame, focus, active)
                 ELSE [rendered |-> rendered_frame, next |-> next_frame] IN
        /\ rendered_frame' = fr.rendered
        /\ next_frame' = fr.next
        /\ mouse_hit_test' = IF dirty
                             THEN FrameHitTest(fr.rendered, mouse_position)
                             ELSE mouse_hit_test
    /\ dirty' = FALSE
    /\ refreshing' = IF dirty THEN FALSE ELSE refreshing
    /\ draw_count' = IF dirty THEN (draw_count + 1) % 2 ELSE draw_count
    /\ element_state_log' = IF dirty THEN ElementStateLog(rendered_frame.element_states)
                            ELSE element_state_log
    /\ focus_trace' = IF dirty
                      THEN FocusNotifications(rendered_frame, rendered_frame',
                                              focus_listeners, focus_lost_listeners, "Focus")
                      ELSE focus_trace
    /\ UNCHANGED <<registryVars, focus, focus_enabled, draw_phase, active, tx_stack, ops,
                   next_hitbox_id, mouse_position, global_action_listeners, focus_listeners,
                   focus_lost_listeners>>
    /\ UNCHANGED beyondWindowVars

\* Window::dispatch_event with a key-down event.
DispatchKeyDown(key) ==
    /\ KeyEventDraw
    /\ \E r \in {KeystrokeDispatched(rendered_frame'.dispatch_tree, global_action_listeners,
                                     focus, pending_input, key, Some(key))} :
        /\ pending_input' = r.pending_input
        /\ trace' = Invocations(r.trace)
        /\ keystroke_events' = KeystrokeEvents(r.trace)
        /\ propagate_event' = r.propagate
    /\ pending_modifier' = [pending_modifier EXCEPT !.saw_keystroke = TRUE]
    /\ input_log' = Logged(input_log, InputEvent("key_down", key))
    /\ last_call' = Call("key_down", 0, key)
    /\ UNCHANGED modifiers

\* A release of a single modifier that is a keystroke even after a key-down.
SynthesizedKeystrokeDespiteKeyDown(pending, mods) ==
    IF mods = {} /\ Cardinality(pending.modifiers) = 1
    THEN Some(ModifierKey(pending.modifiers))
    ELSE None

\* dispatch_key_event with a modifiers-changed event: the keystroke it stands
\* for, if the event holds no modifier, one modifier was pending and no
\* keystroke was seen.
SynthesizedKeystroke(pending, mods) ==
    IF /\ mods = {}
       /\ Cardinality(pending.modifiers) = 1
       /\ ~pending.saw_keystroke
    THEN Some(ModifierKey(pending.modifiers))
    ELSE None

\* Window::dispatch_event with a modifiers-changed event: releasing a single
\* modifier that was held without a key-down in between is a keystroke named
\* after the modifier.
DispatchModifiersChanged(mods) ==
    /\ KeyEventDraw
    /\ modifiers' = mods
    /\ LET held == pending_modifier.modifiers
           tap == IsSome(SynthesizedKeystroke(pending_modifier, mods)) IN
        /\ pending_modifier' =
                [modifiers |-> mods,
                 saw_keystroke |-> IF Cardinality(held) = 0 /\ Cardinality(mods) = 1
                                   THEN FALSE ELSE pending_modifier.saw_keystroke]
        /\ IF tap
           THEN \E r \in {KeystrokeDispatched(rendered_frame'.dispatch_tree,
                            global_action_listeners, focus, pending_input,
                            Unwrap(SynthesizedKeystroke(pending_modifier, mods)), None)} :
                /\ pending_input' = r.pending_input
                /\ trace' = Invocations(r.trace)
                /\ keystroke_events' = KeystrokeEvents(r.trace)
                /\ propagate_event' = r.propagate
           ELSE \E r \in {FinishDispatchKeyEvent(rendered_frame'.dispatch_tree,
                            DispatchPath(rendered_frame'.dispatch_tree,
                                         TargetNode(rendered_frame'.dispatch_tree, focus)),
                            None, [trace |-> << >>, propagate |-> TRUE])} :
                /\ trace' = Invocations(r.trace)
                /\ keystroke_events' = KeystrokeEvents(r.trace)
                /\ propagate_event' = r.propagate
                /\ UNCHANGED pending_input
        /\ last_call' = Call("modifiers_changed", 0,
                             IF tap THEN Unwrap(SynthesizedKeystroke(pending_modifier, mods))
                             ELSE "None")
    /\ input_log' = Logged(input_log, InputEvent("modifiers_changed", mods))

\* A timer that takes the pending input whatever the focus is by now.
TimerTakenUnfiltered(pending, current_focus) == pending

\* pending_input.take().filter(|pending| pending.focus == window.focus): the
\* pending input the timer goes on with.
TimerTaken(pending, current_focus) ==
    IF IsSome(pending) /\ Unwrap(pending).focus = current_focus THEN pending ELSE None

\* The task spawned with a pending input, one second later: the pending input
\* is taken and, if the focus is still the one it was typed under, flushed
\* along the path of the node the task captured and replayed.
TimerFires ==
    /\ window_alive
    /\ draw_phase = "None"
    /\ IsSome(pending_input)
    /\ pending_input' = None
    /\ LET p == Unwrap(pending_input)
           tree == rendered_frame.dispatch_tree IN
        IF IsSome(TimerTaken(pending_input, focus))
        THEN \E r \in {ReplayPendingInput(tree, global_action_listeners, focus,
                            FlushDispatch(p.keystrokes, tree, DispatchPath(tree, p.timer)),
                            [trace |-> << >>, propagate |-> propagate_event])} :
             /\ trace' = Invocations(r.trace)
             /\ keystroke_events' = KeystrokeEvents(r.trace)
             /\ propagate_event' = r.propagate
             /\ last_call' = Call("timer", 0, "flushed")
        ELSE /\ UNCHANGED <<trace, propagate_event, keystroke_events>>
             /\ last_call' = Call("timer", 0, "dropped")
    /\ UNCHANGED <<registryVars, focus, focus_enabled, dirty, refreshing, draw_phase,
                   drawVars, global_action_listeners, focus_listeners,
                   focus_lost_listeners, focus_trace, pending_modifier, modifiers,
                   input_log, mouse_position>>
    /\ UNCHANGED beyondWindowVars

\* ------------------------------------------------------------ mouse dispatch
\* The mouse events of the platform.
MouseEventTypes == {"MouseMove", "MouseDown"}

\* The mouse listeners of the frame whose handler takes the event, with their
\* place in the stored order.
MouseEntries(listeners, type, phase) ==
    SelectSeq([i \in 1..Len(listeners) |->
                    Invocation("mouse", phase, i, Unwrap(listeners[i]), type)],
              LAMBDA e : e.listener.on = type)

\* A mouse dispatch whose bubble traversal runs in stored order.
DispatchMouseListenersForward(listeners, type, st) ==
    Continued(Invoked(MouseEntries(listeners, type, "Capture"), st, FALSE), LAMBDA s1 :
    Invoked(MouseEntries(listeners, type, "Bubble"), s1, FALSE))

\* The two loops of Window::dispatch_mouse_event: capture in stored order,
\* then, if the event still propagates, bubble in reverse order; each loop
\* ends with the first listener that stops propagation.
DispatchMouseListeners(listeners, type, st) ==
    Continued(Invoked(MouseEntries(listeners, type, "Capture"), st, FALSE), LAMBDA s1 :
    Invoked(Reversed(MouseEntries(listeners, type, "Bubble")), s1, FALSE))

\* Window::dispatch_event with a mouse-move or mouse-down event at a
\* position: the position and modifiers are recorded, the hit test of the
\* rendered frame is stored and the listeners are called. No drag is active.
DispatchMouseEvent(type, position, mods) ==
    /\ window_alive
    /\ draw_phase = "None"
    /\ mouse_position' = IF type = "MouseExited" THEN mouse_position ELSE position
    /\ modifiers' = mods
    /\ mouse_hit_test' = FrameHitTest(rendered_frame, mouse_position')
    /\ \E r \in {DispatchMouseListeners(rendered_frame.mouse_listeners, type,
                                         [trace |-> << >>, propagate |-> TRUE])} :
        /\ trace' = r.trace
        /\ propagate_event' = r.propagate
    /\ last_call' = Call("mouse", position, type)
    /\ UNCHANGED <<registryVars, windowVars, frameVars, active, tx_stack, ops, draw_count,
                   next_hitbox_id, element_state_log, global_action_listeners, focus_listeners,
                   focus_lost_listeners, focus_trace, pending_modifier, keystroke_events,
                   input_log>>
    /\ UNCHANGED beyondWindowVars

\* The file-drop events of the platform.
FileDropEvents == {"Entered", "Pending", "Submit", "Exited"}

\* Window::dispatch_event, what a file-drop event is translated to: a mouse
\* move when files enter or hover, a mouse up when they are dropped, itself
\* when they leave.
TranslatedFileDrop(file_drop) ==
    CASE file_drop \in {"Entered", "Pending"} -> "MouseMove"
      [] file_drop = "Submit" -> "MouseUp"
      [] file_drop = "Exited" -> "FileDrop"

\* Window::dispatch_event for a file-drop event. All but Exited move the mouse
\* position. `is_mouse_event` is whether PlatformInput::mouse_event answers for
\* the translated event, which for FileDrop(Exited) this source does not say;
\* `active_drag` is whether the application holds a drag once the listeners
\* ran, which makes dispatch_mouse_event call refresh after a move or an up.
DispatchFileDrop(file_drop, position, is_mouse_event, active_drag) ==
    /\ window_alive
    /\ draw_phase = "None"
    /\ file_drop # "Exited" => is_mouse_event
    /\ file_drop = "Exited" => ~active_drag
    /\ mouse_position' = IF file_drop = "Exited" THEN mouse_position ELSE position
    /\ mouse_hit_test' = IF is_mouse_event
                         THEN FrameHitTest(rendered_frame, mouse_position')
                         ELSE mouse_hit_test
    /\ \E r \in {IF is_mouse_event
                 THEN DispatchMouseListeners(rendered_frame.mouse_listeners,
                                             TranslatedFileDrop(file_drop),
                                             [trace |-> << >>, propagate |-> TRUE])
                 ELSE [trace |-> << >>, propagate |-> TRUE]} :
        /\ trace' = r.trace
        /\ propagate_event' = r.propagate
    /\ refreshing' = IF active_drag THEN Refreshed(draw_phase, refreshing) ELSE refreshing
    /\ dirty' = IF active_drag THEN Refreshed(draw_phase, dirty) ELSE dirty
    /\ last_call' = Call("file_drop", mouse_position', file_drop)
    /\ UNCHANGED <<registryVars, focus, focus_enabled, draw_phase, pending_input, frameVars,
                   active, tx_stack, ops, draw_count, next_hitbox_id, element_state_log,
                   global_action_listeners, focus_listeners, focus_lost_listeners, focus_trace,
                   pending_modifier, modifiers, keystroke_events, input_log>>
    /\ UNCHANGED beyondWindowVars

\* What dispatch_mouse_event holds while its listeners run: the event, the
\* listeners taken out of the rendered frame and, for the record, the draw
\* count it began at.
MouseDispatch(type, mouse_listeners, count) ==
    [type |-> type, mouse_listeners |-> mouse_listeners, draw_count |-> count]

\* Window::dispatch_event for a mouse event, up to the call of a listener that
\* is going to draw: the hit test is brought up to date and the listeners are
\* taken out of the rendered frame, which keeps an empty list.
MouseDispatchBegin(type, position) ==
    /\ window_alive
    /\ draw_phase = "None"
    /\ mouse_dispatch = None
    /\ MouseEntries(rendered_frame.mouse_listeners, type, "Capture") # << >>
    /\ mouse_position' = position
    /\ mouse_hit_test' = FrameHitTest(rendered_frame, position)
    /\ mouse_dispatch' = Some(MouseDispatch(type, rendered_frame.mouse_listeners, draw_count))
    /\ rendered_frame' = [rendered_frame EXCEPT !.mouse_listeners = << >>]
    /\ propagate_event' = TRUE
    /\ trace' = << >>
    /\ last_call' = Call("mouse_begin", position, type)
    /\ UNCHANGED <<registryVars, windowVars, next_frame, active, tx_stack, ops, draw_count,
                   next_hitbox_id, element_state_log, global_action_listeners, focus_listeners,
                   focus_lost_listeners, focus_trace, pending_modifier, modifiers,
                   keystroke_events, input_log, upgrading, workspaceVars>>

\* dispatch_mouse_event, its last assignment to the rendered frame: the list
\* the listeners were taken into goes back, whatever the frame holds by then.
RestoredMouseListeners(mouse_listeners, in_frame) == mouse_listeners

\* The rest of that dispatch, once the draw a listener asked for is over: the
\* listeners have run and the taken list is put into the rendered frame.
MouseDispatchEnd ==
    /\ IsSome(mouse_dispatch)
    /\ draw_phase = "None"
    /\ \E r \in {DispatchMouseListeners(Unwrap(mouse_dispatch).mouse_listeners,
                                         Unwrap(mouse_dispatch).type,
                                         [trace |-> << >>, propagate |-> TRUE])} :
        /\ trace' = r.trace
        /\ propagate_event' = r.propagate
    /\ rendered_frame' = [rendered_frame EXCEPT !.mouse_listeners =
            RestoredMouseListeners(Unwrap(mouse_dispatch).mouse_listeners, @)]
    /\ mouse_dispatch' = None
    /\ last_call' = Call("mouse", mouse_position, Unwrap(mouse_dispatch).type)
    /\ UNCHANGED <<registryVars, windowVars, next_frame, active, tx_stack, ops, draw_count,
                   next_hitbox_id, element_state_log, mouse_hit_test, mouse_position,
                   global_action_listeners, focus_listeners, focus_lost_listeners, focus_trace,
                   pending_modifier, modifiers, keystroke_events, input_log, upgrading,
                   workspaceVars>>

\* ------------------------------------------------------ navigation history
NavigationModes ==
    {"Normal", "GoingBack", "GoingForward", "ClosingItem", "ReopeningClosedItem", "Disabled"}

\* The items navigation entries are pushed for.
NavItems == {1, 2}

\* NavigationEntry: the item and the timestamp; the data and is_preview are
\* carried along unread.
NavigationEntry(item, timestamp) == [item |-> item, timestamp |-> timestamp]

\* NavHistoryState as Pane::new makes it.
NavHistoryNew ==
    [mode |-> "Normal",
     backward_stack |-> << >>,
     forward_stack |-> << >>,
     closed_stack |-> << >>,
     next_timestamp |-> 0]

\* A push that evicts nothing.
PushBackUnbounded(stack, entry) == Append(stack, entry)

\* NavHistory::push on one stack: pop_front if the stack holds
\* MAX_NAVIGATION_HISTORY_LEN entries or more, then push_back.
PushBack(stack, entry) ==
    Append(IF Len(stack) >= MAX_NAVIGATION_HISTORY_LEN THEN Tail(stack) ELSE stack, entry)

\* A push that records nothing while history is replayed.
NavHistoryPushedUnlessReplaying(state, item) ==
    IF state.mode \in {"Disabled", "GoingBack", "GoingForward"}
    THEN state
    ELSE [state EXCEPT
            !.backward_stack = IF state.mode = "ClosingItem" THEN @
                               ELSE PushBack(@, NavigationEntry(item, state.next_timestamp)),
            !.forward_stack = IF state.mode = "ClosingItem" THEN @ ELSE << >>,
            !.closed_stack = IF state.mode = "ClosingItem"
                             THEN PushBack(@, NavigationEntry(item, state.next_timestamp))
                             ELSE @,
            !.next_timestamp = @ + 1]

\* NavHistory::push: the stack the entry goes to depends on the mode; only a
\* push in mode Normal or ReopeningClosedItem clears the forward stack.
NavHistoryPushed(state, item) ==
    LET entry == NavigationEntry(item, state.next_timestamp) IN
    CASE state.mode = "Disabled" -> state
      [] state.mode \in {"Normal", "ReopeningClosedItem"} ->
            [state EXCEPT !.backward_stack = PushBack(@, entry),
                          !.forward_stack = << >>,
                          !.next_timestamp = @ + 1]
      [] state.mode = "GoingBack" ->
            [state EXCEPT !.forward_stack = PushBack(@, entry),
                          !.next_timestamp = @ + 1]
      [] state.mode = "GoingForward" ->
            [state EXCEPT !.backward_stack = PushBack(@, entry),
                          !.next_timestamp = @ + 1]
      [] state.mode = "ClosingItem" ->
            [state EXCEPT !.closed_stack = PushBack(@, entry),
                          !.next_timestamp = @ + 1]

\* NavHistory::pop: pop_back on the stack the mode given names; None for the
\* modes Normal, Disabled and ClosingItem.
NavHistoryPopped(state, mode) ==
    LET name == CASE mode = "GoingBack" -> "backward_stack"
                  [] mode = "GoingForward" -> "forward_stack"
                  [] mode = "ReopeningClosedItem" -> "closed_stack"
                  [] OTHER -> "none" IN
    IF name = "none" \/ state[name] = << >>
    THEN [state |-> state, entry |-> None]
    ELSE [state |-> [state EXCEPT ![name] = SubSeq(@, 1, Len(@) - 1)],
          entry |-> Some(state[name][Len(state[name])])]

\* NavHistory::set_mode, which disable() and enable() also are.
NavHistorySetMode(mode) ==
    /\ nav_history.mode # mode
    /\ nav_history' = [nav_history EXCEPT !.mode = mode]
    /\ last_call' = Call("nav_set_mode", 0, mode)
    /\ UNCHANGED <<beyondWorkspaceVars, pane>>

\* NavHistory::push, as an item calls it through its ItemNavHistory.
NavHistoryPush(item) ==
    /\ nav_history.next_timestamp < MaxNavPushes
    /\ nav_history' = NavHistoryPushed(nav_history, item)
    /\ last_call' = Call("nav_push", item, nav_history.mode)
    /\ UNCHANGED <<beyondWorkspaceVars, pane>>

\* NavHistory::pop.
NavHistoryPop(mode) ==
    /\ \E r \in {NavHistoryPopped(nav_history, mode)} :
        /\ nav_history' = r.state
        /\ last_call' = Call("nav_pop", IF IsSome(r.entry) THEN Unwrap(r.entry).item ELSE 0,
                             mode)
    /\ UNCHANGED <<beyondWorkspaceVars, pane>>

\* -------------------------------------------------------------------- pane
\* An item: its id, whether it is a singleton and its first project entry.
Item(id, singleton, entry) == [id |-> id, singleton |-> singleton, entry |-> entry]

\* The items opened: two singletons and two multibuffers, all of the same
\* project entry.
PaneItems ==
    {Item(1, TRUE, Some(1)), Item(2, TRUE, Some(1)),
     Item(3, FALSE, Some(1)), Item(4, FALSE, Some(1))}

ActivateOnClose == {"History", "Neighbour", "LeftNeighbour"}

\* Vec indices start at 0.
At(seq, ix) == seq[ix + 1]
InsertAt(seq, ix, x) == SubSeq(seq, 1, ix) \o <<x>> \o SubSeq(seq, ix + 1, Len(seq))
RemoveAt(seq, ix) == SubSeq(seq, 1, ix) \o SubSeq(seq, ix + 2, Len(seq))
Min(a, b) == IF a < b THEN a ELSE b
Max(a, b) == IF a > b THEN a ELSE b
SaturatingSub(a, b) == IF a > b THEN a - b ELSE 0

\* Pane::new: no item, the activation history empty, nothing pinned. An
\* entry of the activation history is the item id; the entries are kept in
\* the order of their timestamps.
PaneNew ==
    [items |-> << >>,
     active_item_index |-> 0,
     activation_history |-> << >>,
     pinned_tab_count |-> 0,
     preview_item_id |-> None]

\* Pane::preview_item_idx.
PreviewItemIdx(p) ==
    LET found == {ix \in 0..(Len(p.items) - 1) :
                    IsSome(p.preview_item_id) /\ At(p.items, ix).id = Unwrap(p.preview_item_id)} IN
    IF found = {} THEN None ELSE Some(CHOOSE ix \in found : \A other \in found : ix <= other)

\* Pane::activate_item: the index becomes the active one and the item moves
\* to the end of the activation history; nothing for an index out of range.
ActivatedItem(p, index) ==
    IF index < Len(p.items)
    THEN [p EXCEPT !.active_item_index = index,
                   !.activation_history =
                        Append(SelectSeq(@, LAMBDA id : id # At(p.items, index).id),
                               At(p.items, index).id)]
    ELSE p

\* Pane::add_item, `existing_item_index`: the first item with the same id,
\* or that is a singleton of the project entry the added singleton has.
ExistingItemIndex(p, item) ==
    LET project_entry_id == IF item.singleton THEN item.entry ELSE None
        found == {ix \in 0..(Len(p.items) - 1) :
                    \/ At(p.items, ix).id = item.id
                    \/ /\ At(p.items, ix).singleton
                       /\ IsSome(At(p.items, ix).entry)
                       /\ At(p.items, ix).entry = project_entry_id} IN
    IF found = {} THEN None ELSE Some(CHOOSE ix \in found : \A other \in found : ix <= other)

\* An add_item that inserts the item whether or not the pane holds it.
AddedItemAlwaysInserted(p, item, destination_index) ==
    LET insertion_index ==
            Min(IF IsSome(destination_index) THEN Unwrap(destination_index)
                ELSE Max(p.active_item_index + 1, p.pinned_tab_count),
                Len(p.items)) IN
    ActivatedItem([p EXCEPT !.items = InsertAt(@, insertion_index, item)], insertion_index)

\* An add_item that puts a new item at the end of the tabs.
AddedItemAtEnd(p, item, destination_index) ==
    IF IsSome(ExistingItemIndex(p, item))
    THEN ActivatedItem(p, Unwrap(ExistingItemIndex(p, item)))
    ELSE ActivatedItem([p EXCEPT !.items = Append(@, item)], Len(p.items))

\* Pane::add_item: an item the pane holds is moved to the insertion index
\* (unless it is active and no destination was given), a new item is
\* inserted there; the item is then activated.
AddedItem(p, item, destination_index) ==
    LET insertion_index ==
            Min(IF IsSome(destination_index) THEN Unwrap(destination_index)
                ELSE Max(p.active_item_index + 1, p.pinned_tab_count),
                Len(p.items))
        existing == ExistingItemIndex(p, item) IN
    IF IsSome(existing)
    THEN LET existing_item_index == Unwrap(existing)
             existing_item_is_active == existing_item_index = p.active_item_index IN
         IF existing_item_index = insertion_index
         THEN ActivatedItem(p, insertion_index)
         ELSE IF existing_item_is_active /\ ~IsSome(destination_index)
         THEN ActivatedItem(p, existing_item_index)
         ELSE LET removed == RemoveAt(p.items, existing_item_index)
                  active1 == IF existing_item_index < p.active_item_index
                             THEN p.active_item_index - 1 ELSE p.active_item_index
                  index == Min(insertion_index, Len(removed))
                  active2 == IF existing_item_is_active THEN index
                             ELSE IF index <= active1 THEN active1 + 1 ELSE active1 IN
              ActivatedItem([p EXCEPT !.items = InsertAt(removed, index, item),
                                      !.active_item_index = active2],
                            index)
    ELSE ActivatedItem(
            [p EXCEPT !.items = InsertAt(@, insertion_index, item),
                      !.active_item_index =
                            IF /\ insertion_index <= p.active_item_index
                               /\ PreviewItemIdx([p EXCEPT
                                        !.items = InsertAt(@, insertion_index, item)])
                                    # Some(p.active_item_index)
                            THEN @ + 1 ELSE @],
            insertion_index)

\* An index_to_activate that is the right neighbour's under every setting.
IndexToActivateRight(p, item_index, activate_on_close) ==
    IF item_index + 1 < Len(p.items) THEN item_index + 1 ELSE SaturatingSub(item_index, 1)

\* _remove_item, `index_to_activate`, for a pane whose activation history
\* has lost the item that is closed: the item the last entry of the history
\* names, or the right or left neighbour.
IndexToActivate(p, item_index, activate_on_close) ==
    LET left_neighbour_index == SaturatingSub(Min(item_index, Len(p.items)), 1)
        history == p.activation_history
        found == IF history = << >> THEN {}
                 ELSE {ix \in 0..(Len(p.items) - 1) :
                            At(p.items, ix).id = history[Len(history)]} IN
    CASE activate_on_close = "History" ->
            IF found = {} THEN left_neighbour_index
            ELSE CHOOSE ix \in found : \A other \in found : ix <= other
      [] activate_on_close = "Neighbour" ->
            IF item_index + 1 < Len(p.items) THEN item_index + 1
            ELSE SaturatingSub(item_index, 1)
      [] activate_on_close = "LeftNeighbour" -> left_neighbour_index

\* Pane::_remove_item: the item leaves the activation history; if it is the
\* active one, another index is activated first (unless it is the only item
\* and the pane takes the focus); the item is then removed and the active
\* index shifted if it lies behind it.
RemovedItem(p, item_index, activate_on_close, should_activate) ==
    LET id == At(p.items, item_index).id
        p1 == [p EXCEPT
                !.activation_history = SelectSeq(@, LAMBDA e : e # id),
                !.pinned_tab_count = IF @ > item_index THEN @ - 1 ELSE @]
        popped == [p1 EXCEPT !.activation_history = SubSeq(@, 1, SaturatingSub(Len(@), 1))]
        p2 == IF item_index # p.active_item_index
              THEN p1
              ELSE IF Len(p.items) = 1 /\ should_activate
              THEN popped
              ELSE ActivatedItem(popped, IndexToActivate(p1, item_index, activate_on_close)) IN
    [p2 EXCEPT !.items = RemoveAt(@, item_index),
               !.active_item_index = IF item_index < @ THEN @ - 1 ELSE @,
               !.preview_item_id = IF @ = Some(id) THEN None ELSE @]

\* Pane::add_item.
PaneAddItem(item, destination_index) ==
    /\ IsSome(ExistingItemIndex(pane, item)) \/ Len(pane.items) < MaxTabs
    /\ pane' = AddedItem(pane, item, destination_index)
    /\ last_call' = Call("add_item", item.id, destination_index)
    /\ UNCHANGED <<beyondWorkspaceVars, nav_history>>

\* Pane::activate_item.
PaneActivateItem(index) ==
    /\ pane' = ActivatedItem(pane, index)
    /\ last_call' = Call("activate_item", index, "None")
    /\ UNCHANGED <<beyondWorkspaceVars, nav_history>>

\* Pane::set_pinned_count with the count of leading tabs to pin.
PaneSetPinnedCount(count) ==
    /\ count <= Len(pane.items)
    /\ pane' = [pane EXCEPT !.pinned_tab_count = count]
    /\ last_call' = Call("set_pinned_count", count, "None")
    /\ UNCHANGED <<beyondWorkspaceVars, nav_history>>

\* Pane::remove_item of the item at an index, under the activate_on_close
\* setting in force; the mode of the navigation history is set to
\* ClosingItem while the item is deactivated and then restored.
PaneRemoveItem(item_index, activate_on_close, should_activate) ==
    /\ item_index < Len(pane.items)
    /\ pane' = RemovedItem(pane, item_index, activate_on_close, should_activate)
    /\ last_call' = Call("remove_item", item_index, activate_on_close)
    /\ UNCHANGED <<beyondWorkspaceVars, nav_history>>

\* Pane::set_preview_item_id with preview tabs enabled.
PaneSetPreviewItemId(item_id) ==
    /\ pane.preview_item_id # item_id
    /\ pane' = [pane EXCEPT !.preview_item_id = item_id]
    /\ last_call' = Call("set_preview_item_id", 0, "None")
    /\ UNCHANGED <<beyondWorkspaceVars, nav_history>>

\* Pane::close_current_preview_item: the preview item is removed without
\* activating the pane (another item is activated with focus only if the pane
\* has the focus), then active_item_index is set back to what it was.
ClosedCurrentPreviewItem(p, activate_on_close, has_focus) ==
    IF PreviewItemIdx(p) = None
    THEN p
    ELSE [RemovedItem(p, Unwrap(PreviewItemIdx(p)), activate_on_close, has_focus)
            EXCEPT !.active_item_index = p.active_item_index]

PaneCloseCurrentPreviewItem(activate_on_close, has_focus) ==
    /\ IsSome(PreviewItemIdx(pane))
    /\ pane' = ClosedCurrentPreviewItem(pane, activate_on_close, has_focus)
    /\ last_call' = Call("close_current_preview_item", Unwrap(PreviewItemIdx(pane)),
                         IF Unwrap(PreviewItemIdx(pane)) < Len(pane'.items)
                         THEN "Some" ELSE "None")
    /\ UNCHANGED <<beyondWorkspaceVars, nav_history>>

\* Pane::toggle_pin_tab with pin_tab_at and unpin_tab_at, up to the move of
\* the tab, which both defer: the active tab is unpinned if is_tab_pinned says
\* it is pinned, and pinned otherwise.
ToggledPinTab(p) ==
    IF p.items = << >>
    THEN p
    ELSE IF p.pinned_tab_count > p.active_item_index
    THEN [p EXCEPT !.pinned_tab_count = @ - 1]
    ELSE [p EXCEPT !.pinned_tab_count = @ + 1]

PaneTogglePinTab ==
    /\ pane.items # << >>
    /\ pane.pinned_tab_count <= MaxTabs
    /\ pane' = ToggledPinTab(pane)
    /\ last_call' = Call("toggle_pin_tab", pane.active_item_index, "None")
    /\ UNCHANGED <<beyondWorkspaceVars, nav_history>>

\* ------------------------------------------------------------ specification
\* No other thread is in for_id and no mouse event is being dispatched; the
\* workspace has an empty pane.
InitBeyondWindow ==
    /\ upgrading = None
    /\ mouse_dispatch = None
    /\ pane = PaneNew
    /\ nav_history = NavHistoryNew

\* Window::new: an empty registry owned by the window, no focus, dirty.
InitRegistry ==
    /\ handles = << >>
    /\ arc_strong = 1
    /\ window_alive = TRUE
    /\ strong = [id \in FocusIds |-> 0]
    /\ weak = {}
    /\ InitBeyondWindow
    /\ last_call = Call("init", 0, "None")

InitWindow ==
    /\ focus = None
    /\ focus_enabled = TRUE
    /\ dirty = TRUE
    /\ refreshing = FALSE
    /\ draw_phase = "None"
    /\ pending_input = None

\* Window::new: no hitbox id handed out, the mouse at the default point.
InitMouse ==
    /\ next_hitbox_id = 0
    /\ mouse_position = 0
    /\ mouse_hit_test = << >>
    /\ element_state_log = ElementStateLog({})

\* Window::new: two new frames, nothing drawn yet.
InitDraw ==
    /\ active = TRUE
    /\ rendered_frame = FrameNew(0)
    /\ next_frame = FrameNew(1)
    /\ tx_stack = << >>
    /\ ops = 0
    /\ draw_count = 0
    /\ InitMouse

\* Window::new: no focus listener, and no draw has told one anything.
InitFocusListeners ==
    /\ focus_listeners = << >>
    /\ focus_lost_listeners = << >>
    /\ focus_trace = << >>

\* AppContext as the application starts: no global listener, nothing dispatched.
InitDispatch ==
    /\ global_action_listeners = [a \in ActionTypes |-> << >>]
    /\ InitFocusListeners
    /\ propagate_event = TRUE
    /\ trace = << >>
    /\ pending_modifier = [modifiers |-> {}, saw_keystroke |-> FALSE]
    /\ modifiers = {}
    /\ keystroke_events = << >>
    /\ input_log = None

Init == InitRegistry /\ InitWindow /\ InitDraw /\ InitDispatch

InitFocus == Init

NextFocus ==
    \/ FocusHandleNew
    \/ \E id \in FocusIds : FocusHandleClone(id)
    \/ \E id \in FocusIds : FocusHandleDrop(id)
    \/ \E id \in FocusIds : FocusHandleDowngrade(id)
    \/ \E id \in FocusIds : WeakFocusHandleUpgrade(id)
    \/ WindowFocused
    \/ \E id \in FocusIds : WindowFocus(id)
    \/ WindowBlur
    \/ WindowDisableFocus
    \/ WindowDrop

\* The registry and the window's focus under every sequence of handle and
\* focus operations.
SpecFocus == InitFocus /\ [][NextFocus]_vars

NextUpgradeRace ==
    \/ FocusHandleNew
    \/ \E id \in FocusIds : FocusHandleClone(id)
    \/ \E id \in FocusIds : FocusHandleDrop(id)
    \/ \E id \in FocusIds : FocusHandleDowngrade(id)
    \/ \E id \in FocusIds : UpgradeLoad(id)
    \/ UpgradeFetchAdd
    \/ WindowDrop

\* The registry with an upgrade on a second thread: its load and its
\* fetch_add are steps of their own, between which the handle operations of
\* the first thread may run.
SpecUpgradeRace == InitFocus /\ [][NextUpgradeRace]_vars

\* The window before its first draw: as constructed, or after its view made
\* a focus handle and focused it (focus_handle() then focus(&handle)).
InitDrawFocused ==
    /\ handles = <<1>>
    /\ arc_strong = 2
    /\ window_alive = TRUE
    /\ strong = [id \in FocusIds |-> IF id = 1 THEN 1 ELSE 0]
    /\ weak = {}
    /\ InitBeyondWindow
    /\ last_call = Call("focus", 1, "None")
    /\ focus = Some(1)
    /\ focus_enabled = TRUE
    /\ dirty = TRUE
    /\ refreshing = TRUE
    /\ draw_phase = "None"
    /\ pending_input = None
    /\ InitDraw
    /\ InitDispatch

NextDraw ==
    \/ WindowRefresh
    \/ DrawBegin
    \/ \E opaque \in BOOLEAN : InsertHitbox(Viewport, Viewport, opaque)
    \/ SetTooltip
    \/ \E priority \in Priorities : DeferDraw(priority)
    \/ \E id \in FocusIds : PushDispatchNode(Some(id))
    \/ PushDispatchNode(None)
    \/ \E key \in ElementStateKeys : WithElementState(key)
    \/ TransactBegin
    \/ \E ok \in BOOLEAN : TransactEnd(ok)
    \/ PrepaintEnd
    \/ PaintQuad
    \/ OnMouseEvent(MouseListener("MouseDown", "none", "none"))
    \/ SetCursorStyle
    \/ DrawSwap
    \/ DrawEnd

\* The frames under every sequence of draw passes and element calls.
SpecDraw == (Init \/ InitDrawFocused) /\ [][NextDraw]_vars

NextDeferred ==
    \/ WindowRefresh
    \/ DrawBegin
    \/ PushDispatchNode(None)
    \/ \E opaque \in BOOLEAN : InsertHitbox(Viewport, Viewport, opaque)
    \/ \E priority \in Priorities : DeferDraw(priority)
    \/ PrepaintDeferredDraws
    \/ PaintQuad
    \/ PaintDeferredDraws
    \/ DrawEnd

\* Draw passes whose root element tree defers draws that insert a hitbox and
\* paint a quad each.
SpecDeferred == Init /\ [][NextDeferred]_vars

\* ---------------------------------------------------------- action dispatch
\* The listeners registered for Save, by an element with on_action or
\* globally: one that handles it in the bubble phase, one that handles it and
\* calls propagate(), and one that stops it in the capture phase. An element
\* may also listen for another action type.
SaveListenerKinds ==
    {Listener("Save", "none", "none"),
     Listener("Save", "none", "propagate"),
     Listener("Save", "stop", "propagate")}

NodeListenerKinds == SaveListenerKinds \cup {Listener("Undo", "none", "none")}

\* The sequences over S of length at most n.
SeqsUpTo(S, n) == UNION {[1..k -> S] : k \in 0..n}

\* The frame a draw pass leaves rendered for a view of two elements: the
\* root and, under it, a leaf with key context Editor, each with a focus
\* handle, holding the listeners they registered while painting.
RenderedView(root_focus, ra, rk, la, lk) ==
    [FrameNew(1) EXCEPT
        !.window_active = TRUE,
        !.dispatch_tree = <<DispatchNode(0, root_focus, None, ra, rk),
                            DispatchNode(1, Some(1), Some("Editor"), la, lk)>>]

\* The window after its first draw: the leaf holds focus handle 1 and the
\* root focus handle 2, nothing is focused, and the application registered
\* its global listeners.
InitAction ==
    /\ handles = <<1, 1>>
    /\ arc_strong = 3
    /\ window_alive = TRUE
    /\ strong = [id \in FocusIds |-> IF id <= 2 THEN 1 ELSE 0]
    /\ weak = {}
    /\ InitBeyondWindow
    /\ last_call = Call("new", 2, "Some")
    /\ focus = None
    /\ focus_enabled = TRUE
    /\ dirty = FALSE
    /\ refreshing = FALSE
    /\ draw_phase = "None"
    /\ pending_input = None
    /\ active = TRUE
    /\ \E ra \in SeqsUpTo(NodeListenerKinds, MaxNodeListeners) :
       \E la \in SeqsUpTo(NodeListenerKinds, MaxNodeListeners) :
            rendered_frame = RenderedView(Some(2), ra, << >>, la, << >>)
    /\ next_frame = FrameNew(0)
    /\ tx_stack = << >>
    /\ ops = 0
    /\ draw_count = 1
    /\ InitMouse
    /\ \E gs \in SeqsUpTo(SaveListenerKinds, MaxGlobalListeners) :
            global_action_listeners = [a \in ActionTypes |-> IF a = "Save" THEN gs ELSE << >>]
    /\ InitFocusListeners
    /\ propagate_event = TRUE
    /\ trace = << >>
    /\ pending_modifier = [modifiers |-> {}, saw_keystroke |-> FALSE]
    /\ modifiers = {}
    /\ keystroke_events = << >>
    /\ input_log = None

NextAction ==
    \E id \in FocusIds : \E action \in ActionTypes : FocusHandleDispatchAction(id, action)

\* Actions dispatched at the root and at the leaf, for every choice of
\* listeners.
SpecAction == InitAction /\ [][NextAction]_vars

\* ------------------------------------------------------------- key dispatch
\* The key-down listeners an element registers with on_key_event: one that
\* only observes and one that stops the event in the bubble phase.
KeyListenerKinds ==
    {Listener("KeyDown", "none", "none"),
     Listener("KeyDown", "none", "stop")}

\* No listener or one listener of the given kinds.
AtMostOne(kinds) == {<< >>} \cup {<<l>> : l \in kinds}

\* The window after its first draw: the leaf holds focus handle 1, nothing is
\* focused, no global listener is registered.
InitKeys ==
    /\ handles = <<1>>
    /\ arc_strong = 2
    /\ window_alive = TRUE
    /\ strong = [id \in FocusIds |-> IF id = 1 THEN 1 ELSE 0]
    /\ weak = {}
    /\ InitBeyondWindow
    /\ last_call = Call("new", 1, "Some")
    /\ focus = None
    /\ focus_enabled = TRUE
    /\ dirty = FALSE
    /\ refreshing = FALSE
    /\ draw_phase = "None"
    /\ pending_input = None
    /\ active = TRUE
    /\ \E ra \in AtMostOne(SaveListenerKinds) : \E la \in AtMostOne(SaveListenerKinds) :
       \E rk \in AtMostOne(KeyListenerKinds) : \E lk \in AtMostOne(KeyListenerKinds) :
            rendered_frame = RenderedView(None, ra, rk, la, lk)
    /\ next_frame = FrameNew(0)
    /\ tx_stack = << >>
    /\ ops = 0
    /\ draw_count = 1
    /\ InitMouse
    /\ InitDispatch

NextKeys ==
    \/ \E key \in Keys : DispatchKeyDown(key)
    \/ TimerFires
    \/ \E id \in FocusIds : WindowFocus(id)
    \/ WindowBlur
    \/ WindowDisableFocus

\* Key events, timeouts and focus changes, for every choice of listeners.
SpecKeys == InitKeys /\ [][NextKeys]_vars

\* ---------------------------------------------------------------- hit test
\* The first draw of a window whose elements insert hitboxes of every shape,
\* with the mouse moving before and after it.
NextHitTest ==
    \/ \E position \in Points : DispatchMouseEvent("MouseMove", position, {})
    \/ DrawBegin
    \/ \E bounds \in Regions : \E mask \in {Viewport, 0..(MaxPoint - 1)} :
       \E opaque \in BOOLEAN : InsertHitbox(bounds, mask, opaque)
    \/ PrepaintEnd
    \/ DrawSwap
    \/ DrawEnd

SpecHitTest == Init /\ [][NextHitTest]_vars

\* The hitboxes elements insert in the draws the cached hit test is followed
\* through: a transparent one at the origin, an opaque one over the viewport.
CachedHitboxes == {Hitbox(0, 0..0, Viewport, FALSE), Hitbox(0, Viewport, Viewport, TRUE)}
\* Where the events of those runs put the mouse.
CachedPoints == {0, 1}

NextHitTestCache ==
    \/ WindowRefresh
    \/ DrawBegin
    \/ PushDispatchNode(None)
    \/ \E hitbox \in CachedHitboxes :
            InsertHitbox(hitbox.bounds, hitbox.content_mask, hitbox.opaque)
    \/ PrepaintEnd
    \/ DrawSwap
    \/ DrawEnd
    \/ \E type \in {"MouseMove", "MouseExited"} : \E position \in CachedPoints :
            DispatchMouseEvent(type, position, {})
    \/ \E file_drop \in FileDropEvents : \E position \in CachedPoints :
       \E is_mouse_event, active_drag \in BOOLEAN :
            DispatchFileDrop(file_drop, position, is_mouse_event, active_drag)
    \/ DispatchTreeLen(rendered_frame.dispatch_tree) > 0 /\ DispatchKeyDown("s")

\* Draws that insert hitboxes, between mouse, file-drop and key events.
SpecHitTestCache == Init /\ [][NextHitTestCache]_vars

\* Draws that register mouse listeners, before a mouse event and while one of
\* its listeners runs (the listener calls Window::refresh and Window::draw).
NextListenerSwap ==
    \/ WindowRefresh
    \/ DrawBegin
    \/ PrepaintEnd
    \/ \E listener \in {MouseListener("MouseDown", "none", "none"),
                        MouseListener("MouseMove", "none", "stop")} : OnMouseEvent(listener)
    \/ DrawSwap
    \/ DrawEnd
    \/ \E type \in {"MouseDown", "MouseMove"} : MouseDispatchBegin(type, 0)
    \/ MouseDispatchEnd

SpecListenerSwap == Init /\ [][NextListenerSwap]_vars

\* ----------------------------------------------------------- element state
\* Draw passes whose elements keep state across frames, roll prepaint back
\* and reuse what a cached view recorded in the rendered frame: a prepaint
\* range from the start of the logs, a paint range up to their end.
NextElementState ==
    \/ WindowRefresh
    \/ DrawBegin
    \/ \E key \in ElementStateKeys : WithElementState(key)
    \/ TransactBegin
    \/ \E ok \in BOOLEAN : TransactEnd(ok)
    \/ SetTooltip
    \/ \E end \in 0..Len(rendered_frame.accessed_element_states) :
        ReusePrepaint([start |-> PrepaintIndex(FrameNew(0)),
                       end |-> [PrepaintIndex(rendered_frame) EXCEPT
                                    !.accessed_element_states_index = end]])
    \/ PrepaintEnd
    \/ OnMouseEvent(MouseListener("MouseDown", "none", "none"))
    \/ \E start \in 0..Len(rendered_frame.accessed_element_states) :
        ReusePaint([start |-> [PaintIndex(FrameNew(0)) EXCEPT
                                    !.accessed_element_states_index = start],
                    end |-> PaintIndex(rendered_frame)])
    \/ DrawSwap
    \/ DrawEnd

SpecElementState == Init /\ [][NextElementState]_vars

\* ------------------------------------------------------------ focus events
\* A handler that a focus listener of the draw in progress runs.
FocusListenerRuns ==
    /\ draw_phase = "Focus"
    /\ \E i \in DOMAIN focus_trace : focus_trace[i].kind = "focus" /\ focus_trace[i].fired

\* The window after its first draw of a view whose root holds focus handle 2
\* and whose leaf holds focus handle 1: nothing is focused, and listeners for
\* focus moving in and out of both handles are registered, with or without a
\* focus-lost observer.
InitFocusEvents ==
    /\ handles = <<1, 1>>
    /\ arc_strong = 3
    /\ window_alive = TRUE
    /\ strong = [id \in FocusIds |-> IF id <= 2 THEN 1 ELSE 0]
    /\ weak = {}
    /\ InitBeyondWindow
    /\ last_call = Call("new", 2, "Some")
    /\ focus = None
    /\ focus_enabled = TRUE
    /\ dirty = FALSE
    /\ refreshing = FALSE
    /\ draw_phase = "None"
    /\ pending_input = None
    /\ active = TRUE
    /\ rendered_frame = RenderedView(Some(2), << >>, << >>, << >>, << >>)
    /\ next_frame = FrameNew(0)
    /\ tx_stack = << >>
    /\ ops = 0
    /\ draw_count = 1
    /\ InitMouse
    /\ global_action_listeners = [a \in ActionTypes |-> << >>]
    /\ focus_listeners = <<FocusListener("focus_in", 1), FocusListener("focus_out", 1),
                           FocusListener("focus_in", 2), FocusListener("focus_out", 2)>>
    /\ focus_lost_listeners \in {<< >>, <<"observer">>}
    /\ focus_trace = << >>
    /\ propagate_event = TRUE
    /\ trace = << >>
    /\ pending_modifier = [modifiers |-> {}, saw_keystroke |-> FALSE]
    /\ modifiers = {}
    /\ keystroke_events = << >>
    /\ input_log = None

\* The application focuses, blurs and disables focus between draws, the
\* platform activates and deactivates the window, each draw builds no
\* dispatch node, a root that holds handle 1, or the nodes of the rendered
\* frame again, and a focus listener's handler may focus or blur in turn.
NextFocusEvents ==
    \/ \E id \in 1..2 : draw_phase = "None" /\ WindowFocus(id)
    \/ draw_phase = "None" /\ WindowBlur
    \/ draw_phase = "None" /\ WindowDisableFocus
    \/ \E b \in BOOLEAN : ActiveStatusChange(b)
    \/ DrawBegin
    \/ next_frame.dispatch_tree = << >> /\ PushDispatchNode(Some(1))
    \/ next_frame.dispatch_tree = << >>
        /\ ReusePrepaint([start |-> PrepaintIndex(FrameNew(0)),
                          end |-> PrepaintIndex(rendered_frame)])
    \/ PrepaintEnd
    \/ DrawSwap
    \/ \E id \in 1..2 : FocusListenerRuns /\ WindowFocus(id)
    \/ FocusListenerRuns /\ WindowBlur
    \/ DrawEnd

SpecFocusEvents == InitFocusEvents /\ [][NextFocusEvents]_vars

\* ---------------------------------------------------------- mouse dispatch
\* The mouse listeners elements paint: for mouse-down events one that only
\* observes, one that stops the event in the capture phase and one that
\* stops it in the bubble phase, and an observer of mouse moves.
MouseListenerKinds ==
    {MouseListener("MouseDown", "none", "none"),
     MouseListener("MouseDown", "stop", "none"),
     MouseListener("MouseDown", "none", "stop"),
     MouseListener("MouseMove", "none", "none")}

\* The first draw, whose elements register mouse listeners, and mouse
\* events dispatched before and after it.
NextMouse ==
    \/ DrawBegin
    \/ PrepaintEnd
    \/ \E listener \in MouseListenerKinds : OnMouseEvent(listener)
    \/ DrawSwap
    \/ DrawEnd
    \/ \E type \in MouseEventTypes : \E position \in Points :
            DispatchMouseEvent(type, position, {})

SpecMouse == Init /\ [][NextMouse]_vars

\* ------------------------------------------------------ modifiers dispatch
\* The listeners elements register for modifiers-changed events: key
\* listeners that observe, stop the event in the capture phase or stop it in
\* the bubble phase, a key listener for key-down events, and
\* modifiers-changed listeners that observe or stop the event.
ModifiersKeyListenerKinds ==
    {Listener("ModifiersChanged", "none", "none"),
     Listener("ModifiersChanged", "stop", "none"),
     Listener("ModifiersChanged", "none", "stop"),
     Listener("KeyDown", "none", "none")}
ModifiersChangedListenerKinds ==
    {Listener("ModifiersChanged", "none", "none"),
     Listener("ModifiersChanged", "stop", "stop")}

\* The window after its first draw: the leaf holds focus handle 1, which is
\* focused or not, and root and leaf hold every choice of listeners.
InitModifiers ==
    /\ handles = <<1>>
    /\ arc_strong = 2
    /\ window_alive = TRUE
    /\ strong = [id \in FocusIds |-> IF id = 1 THEN 1 ELSE 0]
    /\ weak = {}
    /\ InitBeyondWindow
    /\ last_call = Call("new", 1, "Some")
    /\ focus \in {None, Some(1)}
    /\ focus_enabled = TRUE
    /\ dirty = FALSE
    /\ refreshing = FALSE
    /\ draw_phase = "None"
    /\ pending_input = None
    /\ active = TRUE
    /\ \E rk \in AtMostOne(ModifiersKeyListenerKinds) :
       \E lk \in AtMostOne(ModifiersKeyListenerKinds) :
       \E rm \in AtMostOne(ModifiersChangedListenerKinds) :
       \E lm \in AtMostOne(ModifiersChangedListenerKinds) :
            rendered_frame =
                [RenderedView(None, << >>, rk, << >>, lk) EXCEPT
                    !.focus = focus,
                    !.dispatch_tree[1].modifiers_changed_listeners = rm,
                    !.dispatch_tree[2].modifiers_changed_listeners = lm]
    /\ next_frame = FrameNew(0)
    /\ tx_stack = << >>
    /\ ops = 0
    /\ draw_count = 1
    /\ InitMouse
    /\ InitDispatch

NextModifiers ==
    \/ \E mods \in SUBSET Modifiers : DispatchModifiersChanged(mods)
    \/ DispatchKeyDown("s")

\* Modifier changes and key presses, for every choice of listeners.
SpecModifiers == InitModifiers /\ [][NextModifiers]_vars

\* --------------------------------------------------------- modifier taps
\* The window after its first draw, nothing focused and no listener, with
\* the key events recorded from here on.
InitTap ==
    /\ InitRegistry
    /\ focus = None
    /\ focus_enabled = TRUE
    /\ dirty = FALSE
    /\ refreshing = FALSE
    /\ draw_phase = "None"
    /\ pending_input = None
    /\ active = TRUE
    /\ rendered_frame = RenderedView(None, << >>, << >>, << >>, << >>)
    /\ next_frame = FrameNew(0)
    /\ tx_stack = << >>
    /\ ops = 0
    /\ draw_count = 1
    /\ InitMouse
    /\ global_action_listeners = [a \in ActionTypes |-> << >>]
    /\ InitFocusListeners
    /\ propagate_event = TRUE
    /\ trace = << >>
    /\ pending_modifier = [modifiers |-> {}, saw_keystroke |-> FALSE]
    /\ modifiers = {}
    /\ keystroke_events = << >>
    /\ input_log = Some(<< >>)

NextTap ==
    \/ \E mods \in SUBSET Modifiers :
            Len(Unwrap(input_log)) < MaxInputs /\ DispatchModifiersChanged(mods)
    \/ Len(Unwrap(input_log)) < MaxInputs /\ DispatchKeyDown("s")

\* Every sequence of modifier changes and key presses, recorded.
SpecTap == InitTap /\ [][NextTap]_vars

\* ------------------------------------------------- events and the timer
\* The window after its first draw, with no listener registered.
InitSupersede ==
    /\ handles = <<1>>
    /\ arc_strong = 2
    /\ window_alive = TRUE
    /\ strong = [id \in FocusIds |-> IF id = 1 THEN 1 ELSE 0]
    /\ weak = {}
    /\ InitBeyondWindow
    /\ last_call = Call("new", 1, "Some")
    /\ focus = None
    /\ focus_enabled = TRUE
    /\ dirty = FALSE
    /\ refreshing = FALSE
    /\ draw_phase = "None"
    /\ pending_input = None
    /\ active = TRUE
    /\ rendered_frame = RenderedView(None, << >>, << >>, << >>, << >>)
    /\ next_frame = FrameNew(0)
    /\ tx_stack = << >>
    /\ ops = 0
    /\ draw_count = 1
    /\ InitMouse
    /\ InitDispatch

NextSupersede ==
    \/ \E key \in {"a", "b"} : DispatchKeyDown(key)
    \/ \E mods \in SUBSET {"shift"} : DispatchModifiersChanged(mods)
    \/ \E position \in {0, 1} : DispatchMouseEvent("MouseMove", position, {})
    \/ TimerFires
    \/ WindowFocus(1)
    \/ WindowBlur

\* Key, modifier and mouse events, focus changes and the timeout of the
\* pending input, in every order.
SpecSupersede == InitSupersede /\ [][NextSupersede]_vars

\* ------------------------------------------------- bindings and listeners
\* The window after its first draw with the leaf focused: root and leaf hold
\* every choice of action listeners, the leaf every choice of key listener
\* and of modifiers-changed listener.
InitBindings ==
    /\ handles = <<1>>
    /\ arc_strong = 2
    /\ window_alive = TRUE
    /\ strong = [id \in FocusIds |-> IF id = 1 THEN 1 ELSE 0]
    /\ weak = {}
    /\ InitBeyondWindow
    /\ last_call = Call("new", 1, "Some")
    /\ focus = Some(1)
    /\ focus_enabled = TRUE
    /\ dirty = FALSE
    /\ refreshing = FALSE
    /\ draw_phase = "None"
    /\ pending_input = None
    /\ active = TRUE
    /\ \E ra \in AtMostOne(NodeListenerKinds) : \E la \in AtMostOne(NodeListenerKinds) :
       \E lk \in AtMostOne(KeyListenerKinds) :
       \E lm \in AtMostOne(ModifiersChangedListenerKinds) :
            rendered_frame =
                [RenderedView(None, ra, << >>, la, lk) EXCEPT
                    !.focus = focus,
                    !.dispatch_tree[2].modifiers_changed_listeners = lm]
    /\ next_frame = FrameNew(0)
    /\ tx_stack = << >>
    /\ ops = 0
    /\ draw_count = 1
    /\ InitMouse
    /\ InitDispatch

NextBindings ==
    \/ DispatchKeyDown("c")
    \/ \E mods \in SUBSET {"shift"} : DispatchModifiersChanged(mods)

\* Keystrokes with two bindings, and taps of a bound modifier, for every
\* choice of listeners.
SpecBindings == InitBindings /\ [][NextBindings]_vars

\* ------------------------------------------------ nested element states
NextReentrant ==
    \/ WindowRefresh
    \/ DrawBegin
    \/ \E key \in ElementStateKeys : WithElementStateCall(key)
    \/ WithElementStateReturn
    \/ element_state_log.calls = << >> /\ PrepaintEnd
    \/ element_state_log.calls = << >> /\ DrawSwap
    \/ DrawEnd

\* Draw passes whose elements call with_element_state, also from inside the
\* closure of another call.
SpecReentrant == Init /\ [][NextReentrant]_vars

\* ----------------------------------------------------------- phase gating
NextPhaseGate ==
    \/ DrawBegin
    \/ PushDispatchNode(None)
    \/ PrepaintEnd
    \/ DrawSwap
    \/ DrawEnd
    \/ \E method \in ElementMethods : ElementMethod(method)

\* Draw passes with the element methods called in every phase.
SpecPhaseGate == (Init \/ InitDrawFocused) /\ [][NextPhaseGate]_vars

\* ------------------------------------------------------ navigation history
NextNavHistory ==
    \/ \E mode \in NavigationModes : NavHistorySetMode(mode)
    \/ \E item \in NavItems : NavHistoryPush(item)
    \/ \E mode \in NavigationModes : NavHistoryPop(mode)

\* The navigation history of a pane under every sequence of mode changes,
\* pushes and pops.
SpecNavHistory == Init /\ [][NextNavHistory]_vars

\* -------------------------------------------------------------------- pane
NextPane ==
    \/ \E item \in PaneItems :
       \E destination_index \in {None} \cup {Some(ix) : ix \in 0..(MaxTabs + 1)} :
            PaneAddItem(item, destination_index)
    \/ \E index \in 0..(MaxTabs - 1) : index < Len(pane.items) /\ PaneActivateItem(index)
    \/ \E count \in 0..MaxTabs : count # pane.pinned_tab_count /\ PaneSetPinnedCount(count)
    \/ \E item_index \in 0..(MaxTabs - 1) : \E activate_on_close \in ActivateOnClose :
       \E should_activate \in BOOLEAN :
            PaneRemoveItem(item_index, activate_on_close, should_activate)

\* The tabs of a pane under every sequence of additions, activations,
\* pinnings and removals.
SpecPane == Init /\ [][NextPane]_vars

NextPanePreview ==
    \/ \E item \in PaneItems : \E destination_index \in {None, Some(0)} :
            PaneAddItem(item, destination_index)
    \/ \E index \in 0..(MaxTabs - 1) : index < Len(pane.items) /\ PaneActivateItem(index)
    \/ \E item_index \in 0..(MaxTabs - 1) : \E should_activate \in BOOLEAN :
            PaneRemoveItem(item_index, "History", should_activate)
    \/ \E ix \in 0..(MaxTabs - 1) :
            ix < Len(pane.items) /\ PaneSetPreviewItemId(Some(At(pane.items, ix).id))
    \/ \E has_focus \in BOOLEAN : PaneCloseCurrentPreviewItem("History", has_focus)
    \/ PaneTogglePinTab

\* A pane whose tabs are added, activated, closed, pinned and made the preview
\* tab, and whose preview tab is closed.
SpecPanePreview == Init /\ [][NextPanePreview]_vars

\* ------------------------------------------------------------------ claims
\* C2: for every sequence of creation, clone, upgrade, downgrade and drop
\* operations, the counter stored for a focus id equals the number of live
\* strong handles for that id, and the id is released (for_id refuses it)
\* if and only if that number is zero.
C2_CountIsLiveHandles ==
    \A id \in DOMAIN handles :
        /\ handles[id] = strong[id]
        /\ ~for_id(handles, id).ok <=> strong[id] = 0

\* C2 witness: one id was dropped to zero while a weak handle names it, and
\* another id holds two strong handles.
C2_Witness ==
    /\ Len(handles) = 2
    /\ handles[1] = 0 /\ 1 \in weak
    /\ handles[2] = 2 /\ strong[2] = 2

\* C3: upgrade returns a handle if and only if the registry is alive, the id
\* has a slot and its count is above zero; a failed upgrade changes no count.
C3_UpgradeIffAlive ==
    [][last_call'.op = "upgrade" =>
        /\ last_call'.result = "Some" <=>
            /\ arc_strong > 0
            /\ SlotPresent(handles, last_call'.id)
            /\ handles[last_call'.id] > 0
        /\ last_call'.result = "None" => handles' = handles]_vars

\* C3 witness: an upgrade has just failed on a live registry because the
\* id's count had reached zero.
C3_Witness ==
    /\ last_call.op = "upgrade" /\ last_call.result = "None"
    /\ arc_strong > 0
    /\ handles[last_call.id] = 0

\* C4 (as claimed): an id with no live strong handle is never the window's
\* current focus.
C4_FocusHasLiveHandle ==
    IsSome(focus) => strong[Unwrap(focus)] > 0

\* Every collection of the frame is empty and its focus is unset.
FrameIsEmpty(f) == f = [FrameNew(f.buf) EXCEPT !.window_active = f.window_active]

\* C1: the window always holds exactly two frames; every draw that reaches
\* the swap exchanges their roles, so after N draws the frame first rendered
\* is rendered again exactly when N is even; the next frame is empty
\* whenever no draw pass is building it.
C1_FramesAlternate ==
    /\ {rendered_frame.buf, next_frame.buf} = {0, 1}
    /\ rendered_frame.buf = draw_count % 2
    /\ draw_phase \in {"None", "Focus"} => FrameIsEmpty(next_frame)

\* C1 witness: two draws have completed, the frame rendered first is rendered
\* again and holds what the second pass painted.
C1_Witness ==
    /\ draw_count = 0
    /\ draw_phase = "None"
    /\ rendered_frame.buf = 0
    /\ Len(rendered_frame.scene) > 0
    /\ Len(rendered_frame.hitboxes) > 0

\* C10: when transact's closure returns Err, the hitbox, tooltip-request,
\* deferred-draw, dispatch-node and accessed-element-state counts of the next
\* frame are again what prepaint_index() gave before the closure ran; when
\* it returns Ok the next frame is left as the closure built it.
C10_TransactRollback ==
    [][Len(tx_stack') < Len(tx_stack) =>
        IF last_call'.result = "Err"
        THEN PrepaintIndex(next_frame') = tx_stack[Len(tx_stack)]
        ELSE next_frame' = next_frame]_vars

\* C10 witness: a transact has just failed, entries made during the attempt
\* were discarded and entries made before it are still there.
C10_Witness ==
    /\ last_call.op = "transact" /\ last_call.result = "Err"
    /\ last_call.id >= 2
    /\ Len(next_frame.hitboxes) > 0

\* The listener calls of the trace, without the dispatch and replay marks.
ListenerCalls(t) == SelectSeq(t, LAMBDA e : e.kind \in {"global", "action", "key"})

\* The stage of dispatch_action_on_node a listener call belongs to.
Stage(e) ==
    CASE e.kind = "global" /\ e.phase = "Capture" -> 1
      [] e.kind = "action" /\ e.phase = "Capture" -> 2
      [] e.kind = "action" /\ e.phase = "Bubble" -> 3
      [] OTHER -> 4

\* How many calls of the trace belong to a stage.
CallsIn(t, stage) == Cardinality({i \in DOMAIN t : Stage(t[i]) = stage})

\* How many listeners a stage has for an action dispatched at a node.
ListenersIn(stage, node, action) ==
    IF stage \in {1, 4}
    THEN Len(global_action_listeners[action])
    ELSE Len(WindowEntries(rendered_frame.dispatch_tree,
                           DispatchPath(rendered_frame.dispatch_tree, node),
                           action, "Capture"))

\* The listeners registered on a node for an action.
ListenersOn(node, action) ==
    SelectSeq(rendered_frame.dispatch_tree[node].action_listeners, LAMBDA l : l.on = action)

\* C7: with listeners for the same action on the root and on the leaf, an
\* action dispatched at the leaf that reaches the bubble phase invokes the
\* leaf's listener, and the root's listener is invoked in the bubble phase
\* only if the leaf's listeners called propagate().
C7_BubbleStopsAtLeaf ==
    (/\ last_call.op = "dispatch_action"
     /\ last_call.id = 1
     /\ ListenersOn(1, last_call.result) # << >>
     /\ ListenersOn(2, last_call.result) # << >>
     /\ \A i \in DOMAIN trace : trace[i].phase = "Capture" => trace[i].after)
    => LET t == ListenerCalls(trace)
           ls == ListenersOn(2, last_call.result) IN
       /\ \E i \in DOMAIN t : Stage(t[i]) = 3 /\ t[i].node = 2 /\ t[i].listener = ls[1]
       /\ (\E i \in DOMAIN t : Stage(t[i]) = 3 /\ t[i].node = 1)
            <=> (\A k \in DOMAIN ls : ls[k].bubble = "propagate")

\* C7 witness: root and leaf both listen for Save, Save was dispatched at the
\* leaf, the leaf's listener ran in the bubble phase and the root's did not.
C7_Witness ==
    /\ last_call = Call("dispatch_action", 1, "Save")
    /\ ListenersOn(1, "Save") # << >>
    /\ ListenersOn(2, "Save") # << >>
    /\ \E i \in DOMAIN trace :
            /\ trace[i].kind = "action" /\ trace[i].phase = "Bubble" /\ trace[i].node = 2
            /\ ~trace[i].after
    /\ ~\E i \in DOMAIN trace :
            trace[i].kind = "action" /\ trace[i].phase = "Bubble" /\ trace[i].node = 1

\* C9: the listener calls of an action dispatch come in stage order (global
\* capture, window capture root to target, window bubble target to root,
\* global bubble); only the last call can have left propagation stopped; and
\* every listener of every stage up to that call, or of all four stages if
\* there is none, was invoked.
C9_FourStagesInOrder ==
    last_call.op = "dispatch_action" =>
    LET t == ListenerCalls(trace)
        node == last_call.id
        action == last_call.result
        node_of_id == Unwrap(FocusableNodeId(rendered_frame.dispatch_tree, node))
        stopped == t # << >> /\ ~t[Len(t)].after
        last_stage == IF stopped THEN Stage(t[Len(t)]) ELSE 5 IN
    /\ \A i, j \in DOMAIN t : i < j =>
        /\ Stage(t[i]) <= Stage(t[j])
        /\ (Stage(t[i]) = 2 /\ Stage(t[j]) = 2) => t[i].node <= t[j].node
        /\ (Stage(t[i]) = 3 /\ Stage(t[j]) = 3) => t[i].node >= t[j].node
    /\ \A i \in DOMAIN t : i < Len(t) => t[i].after
    /\ \A stage \in 1..4 :
        /\ stage < last_stage => CallsIn(t, stage) = ListenersIn(stage, node_of_id, action)
        /\ stage > last_stage => CallsIn(t, stage) = 0
    /\ propagate_event = ~stopped

\* C9 witness: a dispatch went through all four stages, and a global listener
\* in the last stage stopped it before the other global listener was reached.
C9_Witness ==
    /\ last_call.op = "dispatch_action"
    /\ \A stage \in 1..4 : CallsIn(ListenerCalls(trace), stage) > 0
    /\ ~propagate_event
    /\ CallsIn(ListenerCalls(trace), 4) < Len(global_action_listeners[last_call.result])

\* The calls of action listeners in a trace.
ActionCalls(t) == SelectSeq(t, LAMBDA e : e.kind = "action")

\* The calls of key listeners in a trace.
KeyCalls(t) == SelectSeq(t, LAMBDA e : e.kind = "key")

\* C5: with the leaf focused and nothing pending, the key "a", first
\* keystroke of the binding "a b", is stored as pending input under the
\* current focus, no action is dispatched, no key listener runs and the
\* event is reported as not propagated; the key "b" typed while "a" is
\* pending under the current focus dispatches the binding's action Save at
\* the leaf, replays nothing and leaves no pending input.
C5_TwoStrokeBinding ==
    [][last_call'.op = "key_down" =>
        /\ (/\ last_call'.result = "a"
            /\ focus = Some(1)
            /\ pending_input = None)
           => /\ pending_input' = Some(PendingInput(<<"a">>, focus', 2))
              /\ trace' = << >>
              /\ ~propagate_event'
        /\ (/\ last_call'.result = "b"
            /\ focus = Some(1)
            /\ pending_input = Some(PendingInput(<<"a">>, focus, 2)))
           => /\ pending_input' = None
              /\ trace' # << >>
              /\ trace'[1].kind = "dispatch_action"
              /\ trace'[1].what = "Save"
              /\ trace'[1].node = 2
              /\ \A i \in DOMAIN trace' : trace'[i].kind # "replay"
      ]_vars

\* C5 witness: the second keystroke "b" has just fired the binding: Save was
\* dispatched, a listener on the leaf was called, nothing is pending.
C5_Witness ==
    /\ last_call = Call("key_down", 0, "b")
    /\ pending_input = None
    /\ trace # << >>
    /\ trace[1].kind = "dispatch_action"
    /\ \E i \in DOMAIN trace : trace[i].kind = "action" /\ trace[i].node = 2

\* C6: when the timer of the pending input "a" fires under the focus the
\* input was typed under, the pending input is cleared and "a" is replayed:
\* no action is dispatched for it, and it is delivered to the key listeners
\* along the dispatch path, capture first, every one of them in both phases
\* unless one stops the event.
C6_TimeoutReplaysPrefix ==
    [][(/\ last_call'.op = "timer"
        /\ IsSome(pending_input)
        /\ Unwrap(pending_input).keystrokes = <<"a">>
        /\ Unwrap(pending_input).focus = focus)
       => LET tree == rendered_frame.dispatch_tree
              listeners == KeyEntries(tree, DispatchPath(tree, TargetNode(tree, focus)),
                                      "a", "Capture")
              calls == KeyCalls(trace') IN
          /\ pending_input' = None
          /\ trace' # << >>
          /\ trace'[1].kind = "replay"
          /\ trace'[1].what = "a"
          /\ \A i \in DOMAIN trace' : trace'[i].kind \in {"replay", "key"}
          /\ \A i \in DOMAIN calls : calls[i].what = "a"
          /\ listeners # << >> =>
                /\ calls # << >>
                /\ calls[1].phase = "Capture"
                /\ calls[1].node = listeners[1].node
          /\ (\A i \in DOMAIN calls : calls[i].after) => Len(calls) = 2 * Len(listeners)
      ]_vars

\* C6 witness: the timer fired with the leaf still focused and "a" went to
\* the key listeners of the root and of the leaf.
C6_Witness ==
    /\ last_call = Call("timer", 0, "flushed")
    /\ focus = Some(1)
    /\ pending_input = None
    /\ \E i \in DOMAIN trace : trace[i].kind = "key" /\ trace[i].node = 1 /\ trace[i].what = "a"
    /\ \E i \in DOMAIN trace : trace[i].kind = "key" /\ trace[i].node = 2 /\ trace[i].what = "a"

\* C8: with the leaf L focused under the root R and nothing pending, the key
\* "s", bound to Save in L's key context, dispatches Save along the path
\* [R, L]: its listeners are called in the capture phase from R to L before
\* any bubble call, the bubble phase starts at L, and R's listener is called
\* in the bubble phase only if L's listeners called propagate().
C8_KeyBindingDispatchPath ==
    [][(/\ last_call'.op = "key_down"
        /\ last_call'.result = "s"
        /\ focus = Some(1)
        /\ pending_input = None)
       => LET tree == rendered_frame'.dispatch_tree
              calls == ActionCalls(trace') IN
          /\ DispatchPath(tree, TargetNode(tree, focus)) = <<1, 2>>
          /\ trace' # << >>
          /\ trace'[1].kind = "dispatch_action"
          /\ trace'[1].what = "Save"
          /\ trace'[1].node = 2
          /\ \A i, j \in DOMAIN calls : i < j =>
                /\ calls[j].phase = "Capture" => calls[i].phase = "Capture"
                /\ (calls[i].phase = "Capture" /\ calls[j].phase = "Capture")
                        => calls[i].node <= calls[j].node
                /\ (calls[i].phase = "Bubble" /\ calls[j].phase = "Bubble")
                        => calls[i].node >= calls[j].node
          /\ ListenersOn(1, "Save") # << >> =>
                calls[1].phase = "Capture" /\ calls[1].node = 1
          /\ (/\ ListenersOn(2, "Save") # << >>
              /\ \A i \in DOMAIN calls : calls[i].phase = "Capture" => calls[i].after)
             => \E i \in DOMAIN calls :
                    /\ calls[i].phase = "Bubble" /\ calls[i].node = 2
                    /\ \A j \in 1..(i - 1) : calls[j].phase = "Capture"
          /\ (\E i \in DOMAIN calls : calls[i].phase = "Bubble" /\ calls[i].node = 1)
                => \A k \in DOMAIN ListenersOn(2, "Save") :
                        ListenersOn(2, "Save")[k].bubble = "propagate"
      ]_vars

\* C8 witness: "s" was typed with the leaf focused, R and L both listen for
\* Save; R's listener was called in capture, L's in capture and in bubble,
\* and R's was not called in bubble.
C8_Witness ==
    /\ last_call = Call("key_down", 0, "s")
    /\ focus = Some(1)
    /\ ListenersOn(1, "Save") # << >>
    /\ ListenersOn(2, "Save") # << >>
    /\ \E i \in DOMAIN trace :
            trace[i].kind = "action" /\ trace[i].phase = "Capture" /\ trace[i].node = 1
    /\ \E i \in DOMAIN trace :
            trace[i].kind = "action" /\ trace[i].phase = "Bubble" /\ trace[i].node = 2
    /\ ~\E i \in DOMAIN trace :
            trace[i].kind = "action" /\ trace[i].phase = "Bubble" /\ trace[i].node = 1

\* The region a hitbox is hit in: its bounds cut by its content mask.
HitRegion(h) == h.bounds \cap h.content_mask

\* C11 (as claimed): with an opaque hitbox A and a hitbox B inserted after it
\* inside A's region, the hit test of a point in B's region is B alone.
C11_LaterHitboxAlone ==
    (/\ draw_phase = "None"
     /\ Len(rendered_frame.hitboxes) = 2
     /\ rendered_frame.hitboxes[1].opaque
     /\ HitRegion(rendered_frame.hitboxes[2]) \subseteq HitRegion(rendered_frame.hitboxes[1])
     /\ last_call.op = "mouse"
     /\ mouse_position \in HitRegion(rendered_frame.hitboxes[2]))
    => mouse_hit_test = <<rendered_frame.hitboxes[2].id>>

\* C11 (amended): with an opaque hitbox A and a hitbox B inserted after it
\* inside A's region, the hit test of a point in B's region is B alone if B
\* is opaque and B followed by A if it is not; the hit test of a point in A's
\* region outside B's is A alone.
C11_HitTestOrdering ==
    (/\ draw_phase = "None"
     /\ Len(rendered_frame.hitboxes) = 2
     /\ rendered_frame.hitboxes[1].opaque
     /\ HitRegion(rendered_frame.hitboxes[2]) \subseteq HitRegion(rendered_frame.hitboxes[1])
     /\ last_call.op = "mouse")
    => LET A == rendered_frame.hitboxes[1]
           B == rendered_frame.hitboxes[2] IN
       /\ mouse_position \in HitRegion(B) =>
            mouse_hit_test = IF B.opaque THEN <<B.id>> ELSE <<B.id, A.id>>
       /\ mouse_position \in HitRegion(A) \ HitRegion(B) => mouse_hit_test = <<A.id>>

\* C11 witness: the mouse is over a hitbox that is not opaque, inserted after
\* an opaque one that covers a larger region, and the hit test holds both.
C11_Witness ==
    /\ draw_phase = "None"
    /\ last_call.op = "mouse"
    /\ Len(rendered_frame.hitboxes) = 2
    /\ rendered_frame.hitboxes[1].opaque
    /\ ~rendered_frame.hitboxes[2].opaque
    /\ HitRegion(rendered_frame.hitboxes[2]) \subseteq HitRegion(rendered_frame.hitboxes[1])
    /\ HitRegion(rendered_frame.hitboxes[2]) # HitRegion(rendered_frame.hitboxes[1])
    /\ mouse_position \in HitRegion(rendered_frame.hitboxes[2])
    /\ Len(mouse_hit_test) = 2

\* C12 (as claimed): after a draw, every element state the rendered frame
\* held before it and no with_element_state call of the draw named is absent
\* from the rendered frame, and every key such a call named is present.
C12_UncalledStateDropped ==
    draw_phase = "Focus" =>
        /\ element_state_log.called \subseteq rendered_frame.element_states
        /\ \A key \in element_state_log.held \ element_state_log.called :
                key \notin rendered_frame.element_states

\* C12 (amended): after a draw, every element state the rendered frame held
\* before it that no with_element_state call of the draw named and no range
\* reused by reuse_prepaint or reuse_paint named is absent from the rendered
\* frame, and every key a with_element_state call named is present.
C12_UnaccessedStateDropped ==
    draw_phase = "Focus" =>
        /\ element_state_log.called \subseteq rendered_frame.element_states
        /\ \A key \in element_state_log.held \
                        (element_state_log.called \cup element_state_log.reused) :
                key \notin rendered_frame.element_states

\* C12 witness: a draw has ended in which one held state was called for and
\* kept, while the other was neither called for nor reused, and is gone.
C12_Witness ==
    /\ draw_phase = "Focus"
    /\ element_state_log.held = ElementStateKeys
    /\ element_state_log.called = {"list"}
    /\ element_state_log.reused = {}
    /\ rendered_frame.element_states = {"list"}

\* The draw phases in the order a draw pass goes through them.
PhaseOrder == {<<"None", "Prepaint">>, <<"Prepaint", "Paint">>,
               <<"Paint", "Focus">>, <<"Focus", "None">>}

\* C13: the draw phase only ever changes from None to Prepaint, from
\* Prepaint to Paint, from Paint to Focus and from Focus back to None, so it
\* is None outside a draw pass; the focus listeners are told of a focus
\* change only in a step that ends in the Focus phase, and every listener
\* call is made while the phase is Focus.
C13_DrawPhaseOrder ==
    [][/\ draw_phase' # draw_phase => <<draw_phase, draw_phase'>> \in PhaseOrder
       /\ focus_trace' # focus_trace => draw_phase' = "Focus"
       /\ \A i \in DOMAIN focus_trace' : focus_trace'[i].draw_phase = "Focus"]_vars

\* C13 witness: a draw is in its Focus phase and has called a focus listener
\* whose handler ran.
C13_Witness ==
    /\ draw_phase = "Focus"
    /\ \E i \in DOMAIN focus_trace :
            /\ focus_trace[i].kind = "focus"
            /\ focus_trace[i].fired
            /\ focus_trace[i].draw_phase = "Focus"

\* C14: while focus is enabled a focus(handle) call makes the handle's id
\* the current focus and a blur() call makes the focus none; disable_focus()
\* leaves no focus, focus is never enabled again, and once it is disabled
\* nothing is focused and every focus() or blur() call leaves the focus, the
\* pending input and the dirty flag as they were.
C14_FocusOnlyWhileEnabled ==
    [][/\ last_call'.op = "focus" =>
            IF focus_enabled THEN focus' = Some(last_call'.id)
            ELSE UNCHANGED <<focus, pending_input, dirty>>
       /\ last_call'.op = "blur" =>
            IF focus_enabled THEN focus' = None
            ELSE UNCHANGED <<focus, pending_input, dirty>>
       /\ last_call'.op = "disable_focus" => focus' = None /\ ~focus_enabled'
       /\ ~focus_enabled => focus = None /\ ~focus_enabled']_vars

\* C14 witness: focus was disabled while a keystroke was pending, and a
\* later focus() call left the window without focus and the keystroke
\* pending.
C14_Witness ==
    /\ ~focus_enabled
    /\ last_call.op = "focus"
    /\ focus = None
    /\ IsSome(pending_input)

\* C15: a focus() call that moves the focus to another id and a blur() call
\* that clears the focus leave no pending input behind.
C15_FocusChangeClearsPending ==
    [][(last_call'.op \in {"focus", "blur"} /\ focus' # focus) => pending_input' = None]_vars

\* C16: every focus() or blur() call that changes the window's focus, in
\* whatever draw phase it is made, leaves the window dirty.
C16_FocusChangeMarksDirty ==
    [][(last_call'.op \in {"focus", "blur"} /\ focus' # focus) => dirty']_vars

\* C17: in the step of a draw that swaps the frames, the focus listeners are
\* called if and only if the focus paths of the two frames differ or their
\* window-active flags differ; then the focus-lost listeners are called
\* first, and only if the previous path was not empty and the current one
\* is, and after them every registered focus listener is given one and the
\* same event, once, in the order of registration.
C17_FocusListenersIffChanged ==
    [][(draw_phase = "Paint" /\ draw_phase' = "Focus") =>
        LET previous == FrameFocusPath(rendered_frame)
            current == FrameFocusPath(rendered_frame')
            changed == \/ previous # current
                       \/ rendered_frame.window_active # rendered_frame'.window_active
            lost == SelectSeq(focus_trace', LAMBDA e : e.kind = "focus_lost")
            told == SelectSeq(focus_trace', LAMBDA e : e.kind = "focus") IN
        /\ Len(told) > 0 <=> changed
        /\ focus_trace' = lost \o told
        /\ changed =>
            /\ Len(told) = Len(focus_listeners)
            /\ \A i \in DOMAIN told :
                    told[i].listener = focus_listeners[i] /\ told[i].event = told[1].event
            /\ Len(lost) = IF Len(previous) > 0 /\ Len(current) = 0
                           THEN Len(focus_lost_listeners) ELSE 0
        /\ ~changed => focus_trace' = << >>]_vars

\* C17 witness: a draw found the focus gone, called the focus-lost observer
\* and then the four focus listeners.
C17_Witness ==
    /\ draw_phase = "Focus"
    /\ Len(focus_trace) = 5
    /\ focus_trace[1].kind = "focus_lost"
    /\ \A i \in 2..5 : focus_trace[i].kind = "focus"
    /\ Len(focus_trace[2].event.previous_focus_path) > 0
    /\ Len(focus_trace[2].event.current_focus_path) = 0

\* C18: in the focus event a draw gives the focus listeners, the previous
\* path is empty if the window was not active in the previous frame and the
\* current path is empty if it is not active in the new frame; so no
\* on_focus_in listener's handler runs for a frame in which the window is
\* not active, and the handler of an on_focus_out listener for an id on the
\* previous frame's focus path runs when the window stops being active.
C18_InactiveWindowPaths ==
    [][(draw_phase = "Paint" /\ draw_phase' = "Focus") =>
        \A i \in DOMAIN focus_trace' :
            focus_trace'[i].kind = "focus" =>
                LET told == focus_trace'[i] IN
                /\ ~rendered_frame.window_active => told.event.previous_focus_path = << >>
                /\ ~rendered_frame'.window_active => told.event.current_focus_path = << >>
                /\ (~rendered_frame'.window_active /\ told.listener.on = "focus_in")
                        => ~told.fired
                /\ (/\ rendered_frame.window_active
                    /\ ~rendered_frame'.window_active
                    /\ told.listener.on = "focus_out"
                    /\ Contains(FrameFocusPath(rendered_frame), told.listener.focus_id))
                        => told.fired]_vars

\* C18 witness: the window stopped being active while handle 1 under the
\* root's handle 2 kept the focus, and the draw that followed told both
\* on_focus_out listeners, with an empty current path.
C18_Witness ==
    /\ draw_phase = "Focus"
    /\ ~rendered_frame.window_active
    /\ FrameFocusPath(rendered_frame) = <<2, 1>>
    /\ Len(focus_trace) = 4
    /\ \A i \in DOMAIN focus_trace :
            /\ focus_trace[i].event = WindowFocusEvent(<<2, 1>>, << >>)
            /\ focus_trace[i].fired <=> focus_trace[i].listener.on = "focus_out"

\* The listener calls a mouse dispatch made in a phase, the places of the
\* called listeners in the rendered frame's list, and the places of the
\* listeners whose handler takes an event type, in stored order.
MouseCalls(calls, phase) == SelectSeq(calls, LAMBDA e : e.kind = "mouse" /\ e.phase = phase)
Places(calls) == [i \in DOMAIN calls |-> calls[i].node]
Takers(type) ==
    SelectSeq([i \in 1..Len(rendered_frame.mouse_listeners) |-> i],
              LAMBDA i : Unwrap(rendered_frame.mouse_listeners[i]).on = type)
StartsWith(seq, start) ==
    Len(start) <= Len(seq) /\ SubSeq(seq, 1, Len(start)) = start

\* C19: a mouse event goes to the rendered frame's mouse listeners in a
\* capture traversal in stored order and then a bubble traversal in the
\* reverse order; the listener that stops propagation is the last one
\* called, in either traversal, and without a stop every listener is called
\* in both.
C19_MouseCaptureThenBubble ==
    [][(last_call'.op = "mouse" /\ draw_phase = "None" /\ UNCHANGED <<dirty, draw_phase>>) =>
        LET capture == MouseCalls(trace', "Capture")
            bubble == MouseCalls(trace', "Bubble")
            takers == Takers(last_call'.result)
            stopped == \E i \in DOMAIN trace' : ~trace'[i].after IN
        /\ trace' = capture \o bubble
        /\ StartsWith(takers, Places(capture))
        /\ StartsWith(Reversed(takers), Places(bubble))
        /\ \A i \in 1..(Len(trace') - 1) : trace'[i].after
        /\ (Len(bubble) > 0 \/ ~stopped) => Places(capture) = takers
        /\ ~stopped => Places(bubble) = Reversed(takers)
        /\ propagate_event' = ~stopped]_vars

\* C19 witness: of three listeners for the event the last one stops it in
\* the bubble phase: all three were called in the capture traversal and
\* only the last in the bubble traversal.
C19_Witness ==
    /\ last_call.op = "mouse"
    /\ draw_phase = "None"
    /\ Len(Takers(last_call.result)) = 3
    /\ Unwrap(rendered_frame.mouse_listeners[Takers(last_call.result)[3]]).bubble = "stop"
    /\ Places(MouseCalls(trace, "Capture")) = Takers(last_call.result)
    /\ Places(MouseCalls(trace, "Bubble")) = <<Takers(last_call.result)[3]>>
    /\ ~propagate_event

\* The nodes of the dispatch path to the focused node that hold a key
\* listener for an event type, and those that hold a modifiers-changed
\* listener, from the root to the target.
TargetPath == DispatchPath(rendered_frame.dispatch_tree,
                           TargetNode(rendered_frame.dispatch_tree, focus))
KeyNodes(type) ==
    SelectSeq(TargetPath, LAMBDA n :
        \E i \in DOMAIN rendered_frame.dispatch_tree[n].key_listeners :
            rendered_frame.dispatch_tree[n].key_listeners[i].on = type)
ModifiersChangedNodes ==
    SelectSeq(TargetPath, LAMBDA n :
        rendered_frame.dispatch_tree[n].modifiers_changed_listeners # << >>)
CallsOf(calls, kind) == SelectSeq(calls, LAMBDA e : e.kind = kind)
CallsOfIn(calls, kind, phase) ==
    SelectSeq(calls, LAMBDA e : e.kind = kind /\ e.phase = phase)

HeldAfter(log) ==
    LET changes == SelectSeq(log, LAMBDA e : e.kind = "modifiers_changed") IN
    IF changes = << >> THEN {} ELSE changes[Len(changes)].what
Presses(log) ==
    {i \in DOMAIN log :
        /\ log[i].kind = "modifiers_changed"
        /\ Cardinality(log[i].what) = 1
        /\ HeldAfter(SubSeq(log, 1, i - 1)) = {}}
NoKeyDownSincePress(log) ==
    LET last == IF Presses(log) = {} THEN 0
                ELSE CHOOSE i \in Presses(log) : \A j \in Presses(log) : j <= i IN
    \A j \in (last + 1)..Len(log) : log[j].kind # "key_down"

\* C21: a modifiers-changed event stands for a keystroke exactly if it holds
\* no modifier, one modifier was held before it and no key-down was
\* dispatched since the modifiers last went from none to one; the keystroke
\* is named after the modifier that was held.
C21_ModifierTapKeystroke ==
    [][(last_call'.op = "modifiers_changed" /\ IsSome(input_log)) =>
        LET log == Unwrap(input_log)
            tapped == /\ modifiers' = {}
                      /\ Cardinality(HeldAfter(log)) = 1
                      /\ NoKeyDownSincePress(log) IN
        /\ Unwrap(input_log') = Append(log, InputEvent("modifiers_changed", modifiers'))
        /\ tapped <=> last_call'.result # "None"
        /\ tapped => last_call'.result \in HeldAfter(log)]_vars

\* C21 witness: control was pressed after a key-down and released alone, and
\* the release was the keystroke "control".
C21_Witness ==
    /\ input_log = Some(<<InputEvent("key_down", "s"),
                          InputEvent("modifiers_changed", {"control"}),
                          InputEvent("modifiers_changed", {})>>)
    /\ last_call = Call("modifiers_changed", 0, "control")

\* The keystrokes a key-down or a timeout settles: those that were pending
\* and the one typed, less those that are pending afterwards.
PendingKeystrokes(pending) ==
    IF IsSome(pending) THEN Unwrap(pending).keystrokes ELSE << >>
ObservedKeystrokes(events) == [i \in DOMAIN events |-> events[i].keystroke]

\* C22 (as claimed): the keystroke observers are told exactly once of every
\* keystroke, when it resolves a binding, falls through to the key listeners
\* or is replayed after having been pending.
C22_ObserversOncePerKeystroke ==
    [][(\/ last_call'.op = "key_down"
        \/ last_call'.op = "timer" /\ last_call'.result = "flushed") =>
        LET typed == CurrentlyPending(pending_input, focus)
                        \o (IF last_call'.op = "key_down"
                            THEN <<last_call'.result>> ELSE << >>)
            left == PendingKeystrokes(pending_input') IN
        ObservedKeystrokes(keystroke_events')
            = SubSeq(typed, 1, Len(typed) - Len(left))]_vars

\* The one phase each element method is documented for.
DocumentedPhase(method) ==
    IF method \in {"insert_hitbox", "set_focus_handle", "defer_draw"}
    THEN "Prepaint" ELSE "Paint"

\* C23 (as claimed): a call of an element method in any phase but its own,
\* no draw in progress included, fails with a debug assertion and changes
\* nothing.
C23_MethodsFailOutsidePhase ==
    [][(/\ last_call' # last_call
        /\ last_call'.op \in ElementMethods
        /\ draw_phase # DocumentedPhase(last_call'.op)) =>
            /\ last_call'.result = "panic"
            /\ UNCHANGED next_frame]_vars

NavStacks == {"backward_stack", "forward_stack", "closed_stack"}

\* The stack a push in a mode puts its entry on, if any.
PushedOnto(state, name) ==
    /\ state[name] # << >>
    /\ state[name][Len(state[name])].timestamp = state.next_timestamp - 1

\* C24: each of the three stacks holds at most MAX_NAVIGATION_HISTORY_LEN
\* entries, and a push onto a stack that is full drops the stack's oldest
\* entry and appends the new one.
C24_NavStacksBounded ==
    /\ [](\A name \in NavStacks : Len(nav_history[name]) <= MAX_NAVIGATION_HISTORY_LEN)
    /\ [][last_call'.op = "nav_push" =>
            \A name \in NavStacks :
                (/\ nav_history'.next_timestamp = nav_history.next_timestamp + 1
                 /\ PushedOnto(nav_history', name)
                 /\ Len(nav_history[name]) = MAX_NAVIGATION_HISTORY_LEN) =>
                    nav_history'[name] =
                        Append(Tail(nav_history[name]),
                               NavigationEntry(last_call'.id, nav_history.next_timestamp))]_vars

\* C24 witness: a push onto the full backward stack dropped the oldest entry.
C24_Witness ==
    /\ last_call.op = "nav_push"
    /\ Len(nav_history.backward_stack) = MAX_NAVIGATION_HISTORY_LEN
    /\ nav_history.next_timestamp > MAX_NAVIGATION_HISTORY_LEN
    /\ PushedOnto(nav_history, "backward_stack")
    /\ nav_history.backward_stack[1].timestamp > 0
    /\ \A i \in 1..(Len(nav_history.backward_stack) - 1) :
            nav_history.backward_stack[i].timestamp + 1
                = nav_history.backward_stack[i + 1].timestamp

\* C25 (as claimed): a push in mode GoingBack, GoingForward or Disabled
\* leaves the three stacks as they are.
C25_NoPushWhileReplaying ==
    [][(/\ last_call'.op = "nav_push"
        /\ nav_history.mode \in {"GoingBack", "GoingForward", "Disabled"}) =>
            \A name \in NavStacks : nav_history'[name] = nav_history[name]]_vars

\* C25 (amended): a push in mode Disabled records nothing; a push in mode
\* GoingBack puts the entry on the forward stack and a push in mode
\* GoingForward puts it on the backward stack, and neither touches the other
\* two stacks (the forward stack is not cleared).
C25_ReplayPushesOntoOtherStack ==
    [][last_call'.op = "nav_push" =>
        LET entry == NavigationEntry(last_call'.id, nav_history.next_timestamp)
            kept(names) == \A name \in names : nav_history'[name] = nav_history[name]
            pushed(name) ==
                /\ nav_history'[name] # << >>
                /\ nav_history'[name][Len(nav_history'[name])] = entry
                /\ \/ nav_history'[name] = Append(nav_history[name], entry)
                   \/ nav_history'[name] = Append(Tail(nav_history[name]), entry) IN
        /\ nav_history.mode = "Disabled" => nav_history' = nav_history
        /\ nav_history.mode = "GoingBack" =>
                pushed("forward_stack") /\ kept({"backward_stack", "closed_stack"})
        /\ nav_history.mode = "GoingForward" =>
                pushed("backward_stack") /\ kept({"forward_stack", "closed_stack"})]_vars

\* C25 witness: while going forward, with entries left on the forward stack,
\* a push put its entry on the backward stack.
C25_Witness ==
    /\ last_call.op = "nav_push"
    /\ last_call.result = "GoingForward"
    /\ nav_history.mode = "GoingForward"
    /\ nav_history.forward_stack # << >>
    /\ PushedOnto(nav_history, "backward_stack")

\* The item an add_item call was given, the tabs that stand for it (the same
\* id, or a singleton of the same project entry as the singleton given) and
\* the index the call asks for.
AddedPaneItem(call) == CHOOSE item \in PaneItems : item.id = call.id
StandsFor(tab, item) ==
    \/ tab.id = item.id
    \/ tab.singleton /\ item.singleton /\ tab.entry = item.entry
TabsOf(p, item) == {ix \in 0..(Len(p.items) - 1) : StandsFor(At(p.items, ix), item)}
RequestedIndex(p, destination_index) ==
    IF IsSome(destination_index)
    THEN Unwrap(destination_index)
    ELSE Max(p.active_item_index + 1, p.pinned_tab_count)

\* C26: add_item with an item the pane does not hold inserts it at the
\* destination index, or else directly after the active item and not before
\* the pinned tabs, in both cases at most at the end; the other items keep
\* their order and the added item is the active one.
C26_AddNewItem ==
    [][(last_call'.op = "add_item" /\ TabsOf(pane, AddedPaneItem(last_call')) = {}) =>
        LET item == AddedPaneItem(last_call')
            index == Min(RequestedIndex(pane, last_call'.result), Len(pane.items)) IN
        /\ pane'.items = InsertAt(pane.items, index, item)
        /\ pane'.active_item_index = index
        /\ RemoveAt(pane'.items, pane'.active_item_index) = pane.items]_vars

\* C26 witness: with the first of two tabs active and both pinned, a new
\* item was added without a destination and is the active third tab.
C26_Witness ==
    /\ last_call.op = "add_item"
    /\ last_call.result = None
    /\ Len(pane.items) = 3
    /\ pane.pinned_tab_count = 2
    /\ pane.active_item_index = 2
    /\ At(pane.items, 2).id = last_call.id
    /\ Len(pane.activation_history) = 3
    /\ pane.activation_history[2] = At(pane.items, 0).id

\* C27: add_item with an item the pane holds, by its id or as a singleton of
\* the same project entry, adds no tab: the tab is moved to the index asked
\* for (or stays where it is if it is active and no destination is given),
\* the others keep their order, and it is the active tab; an item that is
\* no singleton and whose id is new gets a tab of its own.
C27_AddExistingItem ==
    [][last_call'.op = "add_item" =>
        LET item == AddedPaneItem(last_call')
            tabs == TabsOf(pane, item)
            n == Len(pane.items) IN
        IF tabs = {}
        THEN Len(pane'.items) = n + 1
        ELSE LET existing == CHOOSE ix \in tabs : \A other \in tabs : ix <= other IN
             /\ Len(pane'.items) = n
             /\ \A ix \in 0..(n - 1) :
                    TabsOf(pane', At(pane'.items, ix)) = {ix}
             /\ StandsFor(At(pane'.items, pane'.active_item_index), item)
             /\ RemoveAt(pane'.items, pane'.active_item_index) = RemoveAt(pane.items, existing)
             /\ pane'.active_item_index =
                    IF last_call'.result = None /\ existing = pane.active_item_index
                    THEN existing
                    ELSE Min(RequestedIndex(pane, last_call'.result), n - 1)]_vars

\* C27 witness: a singleton of the project entry of the first tab was added
\* with the last index as its destination; it took the place of that tab at
\* the end and is active.
C27_Witness ==
    /\ last_call = Call("add_item", 2, Some(2))
    /\ Len(pane.items) = 3
    /\ pane.active_item_index = 2
    /\ At(pane.items, 2).id = 2
    /\ 1 \in {pane.activation_history[i] : i \in DOMAIN pane.activation_history}

\* The tab left of a closed tab, or the new first tab.
LeftOrFirst(p, ix) == IF ix > 0 THEN At(p.items, ix - 1) ELSE At(p.items, 1)

\* C28: closing the active item activates, under History, the remaining
\* item that was activated last (or the left neighbour), under Neighbour
\* the right neighbour or else the left one, under LeftNeighbour the left
\* neighbour or else the new first item; the remaining items keep their
\* order.
C28_CloseActiveItem ==
    [][(/\ last_call'.op = "remove_item"
        /\ last_call'.id = pane.active_item_index
        /\ Len(pane.items) > 1) =>
        LET ix == pane.active_item_index
            closed == At(pane.items, ix)
            remaining == SelectSeq(pane.activation_history, LAMBDA id :
                            /\ id # closed.id
                            /\ \E other \in 0..(Len(pane.items) - 1) :
                                    At(pane.items, other).id = id)
            expected ==
                CASE last_call'.result = "History" ->
                        IF remaining # << >>
                        THEN remaining[Len(remaining)]
                        ELSE LeftOrFirst(pane, ix).id
                  [] last_call'.result = "Neighbour" ->
                        IF ix + 1 < Len(pane.items)
                        THEN At(pane.items, ix + 1).id
                        ELSE At(pane.items, ix - 1).id
                  [] last_call'.result = "LeftNeighbour" -> LeftOrFirst(pane, ix).id IN
        /\ pane'.items = RemoveAt(pane.items, ix)
        /\ At(pane'.items, pane'.active_item_index).id = expected]_vars

\* C29: with an upgrade running concurrently with the drop of the last
\* strong handle, the count of an id never goes from zero back to a positive
\* value, and so no upgrade returns a handle once it has reached zero.
C29_CountStaysZero ==
    [][\A id \in DOMAIN handles :
        (handles[id] = 0 /\ id \in DOMAIN handles') =>
            /\ handles'[id] = 0
            /\ last_call' # Call("upgrade", id, "Some")]_vars

\* C30: when the timer of a pending input fires after the focus has changed
\* since the input was stored, nothing is flushed or replayed: no action and
\* no key listener runs, no keystroke is reported, and the pending input is
\* left cleared.
C30_StaleTimerActsOnNothing ==
    [][(/\ IsSome(pending_input)
        /\ Unwrap(pending_input).focus # focus
        /\ last_call' = Call("timer", 0, last_call'.result)) =>
        /\ last_call'.result = "dropped"
        /\ trace' = trace
        /\ keystroke_events' = keystroke_events
        /\ propagate_event' = propagate_event
        /\ pending_input' = None]_vars

\* C30 witness: the timer of an input typed under the focus of handle 1
\* fired after the window was blurred, and left no pending input.
C30_Witness ==
    /\ last_call = Call("timer", 0, "dropped")
    /\ focus = None
    /\ pending_input = None

\* C31: once an input event has been received while a pending sequence is
\* outstanding, the timer armed for it no longer flushes or replays it: a
\* timer that flushes runs right after the keystroke that stored the
\* pending input.
C31_FreshEventSupersedesTimer ==
    [][last_call' = Call("timer", 0, "flushed") =>
        \/ last_call.op = "key_down"
        \/ last_call.op = "modifiers_changed" /\ last_call.result # "None"]_vars

IsActionCall(e) == e.kind \in {"action", "global"}
IsRawCall(e) == e.kind \in {"key", "modifiers_changed"}
DispatchedActions(t) ==
    LET ds == SelectSeq(t, LAMBDA e : e.kind = "dispatch_action") IN
    [i \in DOMAIN ds |-> ds[i].what]

\* C33: a keystroke that leaves nothing pending has its bindings dispatched
\* as actions in order until a listener leaves one handled; nothing runs
\* after that, neither a further binding nor a raw listener. If no action
\* is handled, every binding was dispatched and the key listeners and then
\* the modifiers-changed listeners run.
C33_BindingsThenRawListeners ==
    [][(\/ last_call'.op = "key_down"
        \/ last_call'.op = "modifiers_changed" /\ last_call'.result # "None") =>
        LET tree == rendered_frame'.dispatch_tree
            path == DispatchPath(tree, TargetNode(tree, focus))
            bindings == BindingsForInput(<<last_call'.result>>, tree, path).bindings
            actions == [i \in DOMAIN bindings |-> bindings[i].action]
            raw == IF last_call'.op = "key_down" THEN Some(last_call'.result) ELSE None
            handled == \E i \in DOMAIN trace' : IsActionCall(trace'[i]) /\ ~trace'[i].after
            calls == SelectSeq(trace', IsRawCall) IN
        /\ pending_input = None /\ pending_input' = None
        /\ IsPrefix(DispatchedActions(trace'), actions)
        /\ \A i \in DOMAIN trace' :
                IsActionCall(trace'[i]) /\ ~trace'[i].after => i = Len(trace')
        /\ \A i, j \in DOMAIN trace' :
                IsRawCall(trace'[i]) /\ ~IsRawCall(trace'[j]) => j < i
        /\ \A i, j \in DOMAIN trace' :
                trace'[i].kind = "modifiers_changed" /\ trace'[j].kind = "key" => j < i
        /\ ~handled =>
                /\ DispatchedActions(trace') = actions
                /\ calls = Invocations(FinishDispatchKeyEvent(tree, path, raw,
                                [trace |-> << >>, propagate |-> TRUE]).trace)]_vars

\* C33 witness: "c" was typed with a key listener on the focused leaf; Save
\* was dispatched and its listener let it propagate, Undo was dispatched
\* and handled, and the key listener did not run.
C33_Witness ==
    /\ last_call = Call("key_down", 0, "c")
    /\ rendered_frame.dispatch_tree[2].key_listeners # << >>
    /\ DispatchedActions(trace) = <<"Save", "Undo">>
    /\ \E i \in DOMAIN trace : IsActionCall(trace[i]) /\ trace[i].what = "Save"
    /\ IsActionCall(trace[Len(trace)]) /\ trace[Len(trace)].what = "Undo"
    /\ ~trace[Len(trace)].after

\* The hitboxes of a list that lie under a point, by their place in the
\* list, and among them those not hidden by an opaque one inserted later.
Under(hitboxes, position) ==
    {i \in DOMAIN hitboxes : position \in hitboxes[i].bounds /\ position \in hitboxes[i].content_mask}
Visible(hitboxes, under) ==
    {i \in under : \A j \in under : j > i => ~hitboxes[j].opaque}

\* C34: for the hitboxes of either frame and every point, hit_test returns
\* the ids of the hitboxes whose bounds and content mask both contain the
\* point, from the one inserted last to the earliest, up to and including
\* the first opaque one in that order.
C34_HitTestExact ==
    \A f \in {rendered_frame, next_frame} : \A position \in Points :
    \A hit \in {FrameHitTest(f, position)} :
    \A visible \in {Visible(f.hitboxes, Under(f.hitboxes, position))} :
        /\ Len(hit) = Cardinality(visible)
        /\ \A k \in DOMAIN hit :
                \E i \in visible :
                    /\ f.hitboxes[i].id = hit[k]
                    /\ Cardinality({j \in visible : j > i}) = k - 1

\* C34 witness: the mouse is over two hitboxes that are not opaque, the
\* later one clipped by a content mask smaller than its bounds, and outside
\* the content mask of no other; the hit test lists the later one first.
C34_Witness ==
    /\ draw_phase = "None"
    /\ last_call.op = "mouse"
    /\ Len(rendered_frame.hitboxes) = 2
    /\ ~rendered_frame.hitboxes[1].opaque
    /\ ~rendered_frame.hitboxes[2].opaque
    /\ rendered_frame.hitboxes[2].content_mask # Viewport
    /\ ~(rendered_frame.hitboxes[2].bounds \subseteq rendered_frame.hitboxes[2].content_mask)
    /\ mouse_hit_test = <<rendered_frame.hitboxes[2].id, rendered_frame.hitboxes[1].id>>

\* C35: a transact that fails leaves the focus and the element states of
\* the next frame as they were when it began.
C35_FailedTransactLeaksNothing ==
    [][(Len(tx_stack') < Len(tx_stack) /\ last_call'.result = "Err") =>
        Attempt(next_frame') =
            element_state_log.attempts[Len(element_state_log.attempts)]]_vars

\* C36: a call to with_element_state made from inside the closure of a
\* call for the same element id and state type panics.
C36_ReentrantCallPanics ==
    [][(/\ last_call'.op = "with_element_state"
        /\ ops' = ops + 1
        /\ \E i \in DOMAIN element_state_log.calls :
                element_state_log.calls[i] = last_call'.id) =>
        last_call'.result = "panic"]_vars

\* Deferred draw i runs before deferred draw j: lower priority first, and
\* registration order within one priority.
DrawnBefore(deferred_draws, i, j) ==
    \/ deferred_draws[i].priority < deferred_draws[j].priority
    \/ /\ deferred_draws[i].priority = deferred_draws[j].priority
       /\ i < j

\* The ranges, one per deferred draw, each cover one entry after the first
\* `root` entries, and follow each other as DrawnBefore says.
AfterRootInOrder(deferred_draws, ranges, root) ==
    /\ \A i \in DOMAIN deferred_draws :
        /\ ranges[i].start >= root
        /\ ranges[i].end = ranges[i].start + 1
    /\ \A i, j \in DOMAIN deferred_draws :
        DrawnBefore(deferred_draws, i, j) => ranges[i].end <= ranges[j].start

\* C37: the deferred draws registered in the root element's prepaint are
\* prepainted after everything the root prepainted and painted after
\* everything the root painted, both times by ascending priority and, within
\* one priority, in registration order.
C37_DeferredDrawOrder ==
    [][/\ (draw_phase = "Prepaint" /\ draw_phase' = "Paint") =>
            /\ Len(next_frame'.deferred_draws) = Len(next_frame.deferred_draws)
            /\ AfterRootInOrder(next_frame.deferred_draws,
                    [i \in DOMAIN next_frame'.deferred_draws |->
                        next_frame'.deferred_draws[i].prepaint_range],
                    Len(next_frame.hitboxes))
       /\ (draw_phase = "Paint" /\ draw_phase' = "Focus") =>
            /\ Len(rendered_frame'.deferred_draws) = Len(next_frame.deferred_draws)
            /\ AfterRootInOrder(next_frame.deferred_draws,
                    [i \in DOMAIN rendered_frame'.deferred_draws |->
                        rendered_frame'.deferred_draws[i].paint_range],
                    Len(next_frame.scene))]_vars

\* Three draws deferred with priorities 1, 0, 1 under the root's dispatch node
\* were prepainted and painted second, first and third.
C37_Witness ==
    /\ draw_phase = "Focus"
    /\ Len(rendered_frame.deferred_draws) = 3
    /\ [i \in 1..3 |-> rendered_frame.deferred_draws[i].priority] = <<1, 0, 1>>
    /\ [i \in 1..3 |-> rendered_frame.deferred_draws[i].prepaint_range.start]
        = [i \in 1..3 |-> rendered_frame.deferred_draws[i].paint_range.start]
    /\ [i \in 1..3 |-> rendered_frame.deferred_draws[i].paint_range.start] = <<1, 0, 2>>
    /\ Len(rendered_frame.scene) = 3

\* C38: whenever no draw is in progress (events are dispatched in one step),
\* the cached mouse hit test is the hit test of the rendered frame at the
\* current mouse position.
C38_CachedHitTestCurrent ==
    draw_phase = "None" => mouse_hit_test = FrameHitTest(rendered_frame, mouse_position)

\* A file-drop event moved the mouse over a hitbox of the rendered frame, and
\* the cached hit test names it.
C38_Witness ==
    /\ draw_phase = "None"
    /\ last_call.op = "file_drop"
    /\ last_call.result = "Pending"
    /\ mouse_position = 1
    /\ Len(rendered_frame.hitboxes) = 2
    /\ Len(mouse_hit_test) = 1

\* C39: when a draw swapped the frames while the listeners of a mouse event
\* ran, the rendered frame's mouse listeners after the dispatch are the ones
\* the new frame was painted with, those it held as the listeners returned.
C39_NewFrameListenersKept ==
    [][(/\ IsSome(mouse_dispatch)
        /\ mouse_dispatch' = None
        /\ draw_count # Unwrap(mouse_dispatch).draw_count)
       => rendered_frame'.mouse_listeners = rendered_frame.mouse_listeners]_vars

\* C40: whenever the pane has an item, active_item_index is the index of one of
\* its items, and pinned_tab_count is at most the number of items.
C40_ActiveIndexValid ==
    /\ pane.items # << >> => pane.active_item_index < Len(pane.items)
    /\ pane.pinned_tab_count <= Len(pane.items)

====
